---- MODULE Spec2Model ----
(***************************************************************************)
(* Model of the credit-ratings service core:                               *)
(*   - app/services/rate_limiter.py  (CircuitBreaker, RateLimiter)         *)
(*   - app/services/cache.py         (CacheService)                        *)
(*   - app/services/ratings_service.py (RatingsService.get_ratings)        *)
(* Time is a discrete clock `now` (one unit = one second for the rate      *)
(* limiter, one TTL unit for the cache), read where the code reads         *)
(* datetime.utcnow().                                                      *)
(***************************************************************************)
EXTENDS Integers, Sequences, FiniteSets, TLC

VARIABLES
    now,            \* the clock read by datetime.utcnow()
    circuitTimeout, \* settings.circuit_breaker_timeout_seconds (chosen at start-up)
    tokens,         \* RateLimiter.tokens[domain]
    lastRefill,     \* RateLimiter.last_refill[domain] (Unset until first read)
    circuits,       \* RateLimiter.circuits[domain]: CircuitBreaker fields
    rlLast,         \* history: the last rate-limiter call and what it returned
    allowedLog,     \* history: per domain, times of the allowed acquires of the last window
    failStreak,     \* history: per domain, RecordFailure calls since the last RecordSuccess
    succInHalfOpen, \* history: per domain, RecordSuccess calls since the circuit went half-open
    firstCalls,     \* history: per domain, the answers to the first acquire calls
                    \* since construction, while they all meet the circuit closed
                    \* and less than WindowSeconds have passed since the first
    keyArgs,        \* the two (company_name, country) pairs given to _generate_cache_key
    keyOut,         \* the two keys it returned (NoKeys before the calls)
    cacheReady,     \* CacheService._initialized
    rows,           \* the ratings_cache table: cache_key -> row
    cacheLast,      \* history: the last cache call, its arguments and its outcome
    expiredSeen,    \* history: keys a get found expired, with no set on them since
    qpc,            \* get_ratings: where the call is (idle, cache_get, resolving,
                    \* scraping, finishing, done)
    qargs,          \* get_ratings: company_name and country
    qidx,           \* get_ratings: position in the loop over agencies or tasks
    awaited,        \* get_ratings: the resolver or scraper call being awaited
    entities,       \* get_ratings: resolved_entities, a dict in insertion order
    tasks,          \* get_ratings: the agencies of scraping_tasks
    response,       \* get_ratings: the RatingsResponse being built
    qout,           \* what get_ratings gave its caller
    traffic,        \* history: per domain, since get_ratings was called, the page
                    \* loads sent to it, the allowed acquires and the
                    \* record_success / record_failure calls on it
    pair,           \* two calls of get_ratings: where each is, its scraping_tasks,
                    \* its response and what it gave its caller
    writes,         \* history: the responses cache.set stored, in order
    inFlight        \* per domain, the allowed acquires whose caller has not yet
                    \* recorded the outcome of its request

rlVars == <<now, circuitTimeout, tokens, lastRefill, circuits, rlLast, allowedLog,
            failStreak, succInHalfOpen, firstCalls>>

keyVars == <<keyArgs, keyOut>>

cacheVars == <<cacheReady, rows, cacheLast, expiredSeen>>

queryVars == <<qpc, qargs, qidx, awaited, entities, tasks, response, qout, traffic>>

pairVars == <<pair, writes>>

healVars == <<inFlight>>

vars == <<rlVars, keyVars, cacheVars, queryVars, pairVars, healVars>>

----------------------------------------------------------------------------
(* Bounds of the model and configuration values *)

\* settings.rate_limit_per_domain
RequestsPerWindow == 2
\* settings.rate_limit_window_seconds
WindowSeconds == 3
\* settings.circuit_breaker_threshold
CircuitThreshold == 2
\* largest settings.circuit_breaker_timeout_seconds tried
MaxCircuitTimeout == 3
\* the clock stops here
MaxTime == 5
\* cap on CircuitBreaker.failure_count
MaxFailures == 3

\* longest company_name tried
MaxNameLen == 2
\* longest country tried
MaxCountryLen == 1

\* settings.cache_ttl_days, in clock units
CacheTtl == 2
\* the clock of the cache runs stops here
CacheMaxTime == 4

\* BaseScraper.domain of the three scrapers: the keys of the rate limiter's dicts
AllDomains == {"fitchratings.com", "spglobal.com", "moodys.com"}

\* the domains the rate-limiter calls of RLNext are made on
Domains == {"fitchratings.com"}

Unset == -1

----------------------------------------------------------------------------
(* CircuitBreaker *)

NoReason == [kind |-> "none", wait |-> 0]
CircuitOpenReason == [kind |-> "circuit_open", wait |-> 0]
RateLimitReason(wait) == [kind |-> "rate_limit", wait |-> wait]

\* CircuitBreaker.__init__
NewCircuit ==
    [state |-> "closed", failure_count |-> 0, last_failure_time |-> Unset,
     success_count |-> 0]

\* CircuitBreaker._open_circuit
OpenCircuit(c) == [c EXCEPT !.state = "open"]

HalfOpenForgetsFailures(c) ==
    [c EXCEPT !.state = "half_open", !.success_count = 0, !.failure_count = 0]
\* CircuitBreaker._half_open_circuit
HalfOpenCircuit(c) == [c EXCEPT !.state = "half_open", !.success_count = 0]

\* CircuitBreaker._close_circuit
CloseCircuit(c) ==
    [c EXCEPT !.state = "closed", !.failure_count = 0, !.success_count = 0]

ShouldCloseAfterOne(sc) == sc >= 1
\* record_success: `if self.success_count >= 2`
ShouldClose(sc) == sc >= 2

ShouldOpenStrict(fc) == fc > CircuitThreshold
\* record_failure: `if self.failure_count >= self.threshold`
ShouldOpen(fc) == fc >= CircuitThreshold

SuccessClosesOpen(c) ==
    IF c.state \in {"half_open", "open"}
    THEN LET c1 == [c EXCEPT !.success_count = c.success_count + 1]
         IN  IF ShouldClose(c1.success_count) THEN CloseCircuit(c1) ELSE c1
    ELSE [c EXCEPT !.failure_count = 0]
SuccessKeepsFailures(c) ==
    IF c.state = "half_open"
    THEN LET c1 == [c EXCEPT !.success_count = c.success_count + 1]
         IN  IF ShouldClose(c1.success_count) THEN CloseCircuit(c1) ELSE c1
    ELSE c
SuccessIgnoredInHalfOpen(c) ==
    IF c.state = "closed" THEN [c EXCEPT !.failure_count = 0] ELSE c
\* CircuitBreaker.record_success
CircuitRecordSuccess(c) ==
    IF c.state = "half_open"
    THEN LET c1 == [c EXCEPT !.success_count = c.success_count + 1]
         IN  IF ShouldClose(c1.success_count) THEN CloseCircuit(c1) ELSE c1
    ELSE IF c.state = "closed"
    THEN [c EXCEPT !.failure_count = 0]
    ELSE c

\* CircuitBreaker.record_failure
CircuitRecordFailure(c, t) ==
    LET c1 == [c EXCEPT !.failure_count = c.failure_count + 1,
                        !.last_failure_time = t]
    IN  IF ShouldOpen(c1.failure_count) THEN OpenCircuit(c1) ELSE c1

CooldownElapsedInclusive(c, t, timeout) ==
    c.last_failure_time # Unset /\ t - c.last_failure_time >= timeout
CooldownElapsedLate(c, t, timeout) ==
    c.last_failure_time # Unset /\ t - c.last_failure_time > timeout + 1
\* can_request: last_failure_time and utcnow() - last_failure_time > timedelta(timeout)
CooldownElapsed(c, t, timeout) ==
    c.last_failure_time # Unset /\ t - c.last_failure_time > timeout

\* CircuitBreaker.can_request: the answer and the circuit it leaves
CanRequest(c, t, timeout) ==
    IF c.state = "closed"
    THEN [allowed |-> TRUE, reason |-> NoReason, circuit |-> c]
    ELSE IF c.state = "open"
    THEN IF CooldownElapsed(c, t, timeout)
         THEN [allowed |-> TRUE, reason |-> NoReason, circuit |-> HalfOpenCircuit(c)]
         ELSE [allowed |-> FALSE, reason |-> CircuitOpenReason, circuit |-> c]
    ELSE [allowed |-> TRUE, reason |-> NoReason, circuit |-> c]

----------------------------------------------------------------------------
(* RateLimiter *)

WindowElapsedEarly(elapsed) == elapsed >= WindowSeconds - 1
\* acquire: `if elapsed >= self.window_seconds`
WindowElapsed(elapsed) == elapsed >= WindowSeconds

NoTokensBelowZero(tok) == tok < 0
\* acquire: `if self.tokens[domain] <= 0`
NoTokens(tok) == tok <= 0

\* RateLimiter.acquire on the limiter state (tok, refill, c) at time t.
\* last_refill[domain] is created by its first read, with the clock's value.
AcquireResult(tok, refill, c, t, timeout) ==
    LET cr == CanRequest(c, t, timeout)
    IN  IF ~cr.allowed
        THEN [allowed |-> FALSE, reason |-> cr.reason, tokens |-> tok,
              last_refill |-> refill, circuit |-> cr.circuit]
        ELSE LET last    == IF refill = Unset THEN t ELSE refill
                 elapsed == t - last
                 tok1    == IF WindowElapsed(elapsed) THEN RequestsPerWindow ELSE tok
                 last1   == IF WindowElapsed(elapsed) THEN t ELSE last
             IN  IF NoTokens(tok1)
                 THEN [allowed |-> FALSE,
                       reason |-> RateLimitReason(WindowSeconds - elapsed),
                       tokens |-> tok1, last_refill |-> last1, circuit |-> cr.circuit]
                 ELSE [allowed |-> TRUE, reason |-> NoReason, tokens |-> tok1 - 1,
                       last_refill |-> last1, circuit |-> cr.circuit]

\* the allowed acquires still inside the window that ends now
Recent(log, t) == SelectSeq(log, LAMBDA x : t - x < WindowSeconds)

NoCall == [op |-> "none", domain |-> "", allowed |-> FALSE, reason |-> NoReason,
           pre |-> "closed", elapsed |-> FALSE]

\* The history of the first calls on a domain: none yet; the time of the first
\* acquire and the answers so far; or over, once an acquire met the circuit not
\* closed or WindowSeconds have passed since the first acquire
NoCalls == [start |-> Unset, answers |-> <<>>, over |-> FALSE]
CallsOver == [NoCalls EXCEPT !.over = TRUE]

CallsAfterAcquire(b, pre, allowed, t) ==
    IF b.over THEN b
    ELSE IF pre # "closed" THEN CallsOver
    ELSE IF Len(b.answers) > RequestsPerWindow THEN b
    ELSE [start |-> IF b.start = Unset THEN t ELSE b.start,
          answers |-> Append(b.answers, allowed),
          over |-> FALSE]

CallsAfterTick(b, t) ==
    IF b.start # Unset /\ t - b.start >= WindowSeconds THEN CallsOver ELSE b

\* await rate_limiter.acquire(domain)
Acquire(d) ==
    LET r == AcquireResult(tokens[d], lastRefill[d], circuits[d], now, circuitTimeout)
    IN  /\ tokens' = [tokens EXCEPT ![d] = r.tokens]
        /\ lastRefill' = [lastRefill EXCEPT ![d] = r.last_refill]
        /\ circuits' = [circuits EXCEPT ![d] = r.circuit]
        /\ rlLast' = [op |-> "acquire", domain |-> d, allowed |-> r.allowed,
                      reason |-> r.reason, pre |-> circuits[d].state,
                      elapsed |-> circuits[d].last_failure_time # Unset
                                  /\ now - circuits[d].last_failure_time > circuitTimeout]
        /\ allowedLog' = [allowedLog EXCEPT
                            ![d] = IF r.allowed THEN Append(@, now) ELSE @]
        /\ succInHalfOpen' = [succInHalfOpen EXCEPT
                                ![d] = IF circuits[d].state = "open"
                                          /\ r.circuit.state = "half_open"
                                       THEN 0 ELSE @]
        /\ firstCalls' = [firstCalls EXCEPT
                            ![d] = CallsAfterAcquire(@, circuits[d].state, r.allowed, now)]
        /\ UNCHANGED <<now, circuitTimeout, failStreak>>

\* One record_success / record_failure call on a domain's circuit, with the
\* domain's two history counters
ApplyCall(st, call, t) ==
    IF call = "success"
    THEN [circuit |-> CircuitRecordSuccess(st.circuit),
          failStreak |-> 0,
          succInHalfOpen |-> IF st.circuit.state = "half_open"
                             THEN st.succInHalfOpen + 1 ELSE st.succInHalfOpen]
    ELSE [circuit |-> CircuitRecordFailure(st.circuit, t),
          failStreak |-> IF st.failStreak < CircuitThreshold
                         THEN st.failStreak + 1 ELSE st.failStreak,
          succInHalfOpen |-> 0]

\* A sequence of record_success / record_failure calls, in order
RECURSIVE RecordCalls(_, _, _)
RecordCalls(st, calls, t) ==
    IF calls = <<>> THEN st
    ELSE RecordCalls(ApplyCall(st, Head(calls), t), Tail(calls), t)

SharedDomainState(d) ==
    [circuit |-> circuits["fitchratings.com"],
     failStreak |-> failStreak["fitchratings.com"],
     succInHalfOpen |-> succInHalfOpen["fitchratings.com"]]
\* the circuit and history counters of domain d
DomainState(d) ==
    [circuit |-> circuits[d], failStreak |-> failStreak[d],
     succInHalfOpen |-> succInHalfOpen[d]]

\* the calls are made on domain d, one after the other
Record(d, calls) ==
    LET st     == RecordCalls(DomainState(d), calls, now)
        before == RecordCalls(DomainState(d), SubSeq(calls, 1, Len(calls) - 1), now)
    IN  /\ circuits' = [circuits EXCEPT ![d] = st.circuit]
        /\ failStreak' = [failStreak EXCEPT ![d] = st.failStreak]
        /\ succInHalfOpen' = [succInHalfOpen EXCEPT ![d] = st.succInHalfOpen]
        /\ rlLast' = IF calls = <<>> THEN rlLast
                     ELSE [NoCall EXCEPT !.op = calls[Len(calls)], !.domain = d,
                                         !.pre = before.circuit.state]
        /\ UNCHANGED <<now, circuitTimeout, tokens, lastRefill, allowedLog, firstCalls>>

\* rate_limiter.record_success(domain)
RecordSuccess(d) == Record(d, <<"success">>)

\* rate_limiter.record_failure(domain)
RecordFailure(d) ==
    /\ circuits[d].failure_count < MaxFailures
    /\ Record(d, <<"failure">>)

\* a second passes
Tick ==
    /\ now < MaxTime
    /\ now' = now + 1
    /\ allowedLog' = [d \in AllDomains |-> Recent(allowedLog[d], now + 1)]
    /\ rlLast' = NoCall
    /\ firstCalls' = [d \in AllDomains |-> CallsAfterTick(firstCalls[d], now + 1)]
    /\ UNCHANGED <<circuitTimeout, tokens, lastRefill, circuits, failStreak,
                   succInHalfOpen>>

\* RateLimiter.__init__ with the settings read at start-up
RLInit ==
    /\ now = 0
    /\ circuitTimeout \in 1..MaxCircuitTimeout
    /\ tokens = [d \in AllDomains |-> RequestsPerWindow]
    /\ lastRefill = [d \in AllDomains |-> Unset]
    /\ circuits = [d \in AllDomains |-> NewCircuit]
    /\ rlLast = NoCall
    /\ allowedLog = [d \in AllDomains |-> <<>>]
    /\ failStreak = [d \in AllDomains |-> 0]
    /\ succInHalfOpen = [d \in AllDomains |-> 0]
    /\ firstCalls = [d \in AllDomains |-> NoCalls]

\* the rate limiter as constructed, with the default-like timeout, left alone
RLIdle == RLInit /\ circuitTimeout = MaxCircuitTimeout

RLNext ==
    \/ \E d \in Domains : Acquire(d)
    \/ \E d \in Domains : RecordSuccess(d)
    \/ \E d \in Domains : RecordFailure(d)
    \/ Tick

\* two of the scrapers' domains, for calls that interleave across domains
TwoDomains == {"fitchratings.com", "spglobal.com"}

OriginCalls ==
    \E d \in TwoDomains :
        \/ Acquire(d)
        \/ RecordSuccess(d)
        \/ RecordFailure(d)

----------------------------------------------------------------------------
(* CacheService._generate_cache_key *)

\* Strings are sequences of characters: a lower-case letter, its upper-case
\* form, a blank and the separator the key is built with.
Chars == {"a", "A", " ", ":"}

StringsUpTo(n) == UNION {[1..k -> Chars] : k \in 0..n}

\* Optional[str]: None, or a string
None == [some |-> FALSE, val |-> <<>>]
Some(str) == [some |-> TRUE, val |-> str]

\* str.lower()
Lower(str) == [i \in DOMAIN str |-> IF str[i] = "A" THEN "a" ELSE str[i]]

RECURSIVE LStrip(_)
LStrip(str) ==
    IF str # <<>> /\ Head(str) = " " THEN LStrip(Tail(str)) ELSE str

RECURSIVE RStrip(_)
RStrip(str) ==
    IF str # <<>> /\ str[Len(str)] = " "
    THEN RStrip(SubSeq(str, 1, Len(str) - 1)) ELSE str

\* str.strip()
Strip(str) == RStrip(LStrip(str))

\* `country or ''`
OrEmpty(country) == IF country.some /\ country.val # <<>> THEN country.val ELSE <<>>

\* hashlib.sha256(...).hexdigest(): a collision-free function of the bytes hashed
Sha256(data) == [sha256 |-> data]

\* f"{company_name.lower().strip()}:{country or ''}"
KeyData(name, country) == Strip(Lower(name)) \o <<":">> \o OrEmpty(country)

\* CacheService._generate_cache_key
GenerateCacheKey(name, country) == Sha256(KeyData(name, country))

Names == StringsUpTo(MaxNameLen)
Countries == {None} \cup {Some(c) : c \in StringsUpTo(MaxCountryLen)}
QueryArgs == [name : Names, country : Countries]

NoKeys == <<>>
IdleArgs == [name |-> <<>>, country |-> None]

\* both keys are computed
GenerateKeys ==
    /\ keyOut = NoKeys
    /\ keyOut' = <<GenerateCacheKey(keyArgs[1].name, keyArgs[1].country),
                   GenerateCacheKey(keyArgs[2].name, keyArgs[2].country)>>
    /\ UNCHANGED keyArgs

KeyInit ==
    /\ keyArgs \in QueryArgs \X QueryArgs
    /\ keyOut = NoKeys

KeyIdle ==
    /\ keyArgs = <<IdleArgs, IdleArgs>>
    /\ keyOut = NoKeys

----------------------------------------------------------------------------
(* Response models (app/models/schemas.py, app/models/enums.py) *)

\* RatingAgency, in declaration order; AgencyValue is the enum member's value
Agencies == <<"FITCH", "SP", "MOODYS">>
AgencySet == {Agencies[i] : i \in DOMAIN Agencies}
AgencyValue(a) ==
    CASE a = "FITCH" -> "fitch" [] a = "SP" -> "sp" [] a = "MOODYS" -> "moodys"
\* RatingAgency(value)
AgencyOfValue(v) == CHOOSE a \in AgencySet : AgencyValue(a) = v

\* BaseScraper.domain, per agency
AgencyDomain(a) ==
    CASE a = "FITCH" -> "fitchratings.com" [] a = "SP" -> "spglobal.com"
      [] a = "MOODYS" -> "moodys.com"

\* An error message: its fixed text, the agency value formatted into it ("" when
\* none is) and the seconds formatted into it (0 when none are)
ErrorText(msg, agency, wait) == [msg |-> msg, agency |-> agency, wait |-> wait]
\* error = None
NoError == ErrorText("", "", 0)

\* AgencyRating: raw is "" for None; the fields the service never reads back
\* (outlook, normalized, last_updated, source_url) are left out
AgencyRating(raw, blocked, error) ==
    [raw |-> raw, blocked |-> blocked, error |-> error]

\* Optional[ResolvedEntity] = None; a ResolvedEntity has its confidence in
\* hundredths (round(score, 2)), canonical_url "" for None and the number of its
\* ambiguous_candidates
NoEntity == [name |-> <<>>, canonical_url |-> "", confidence |-> -1,
             ambiguous_candidates |-> 0]

\* RatingsResponse(query=..., ratings={}, notes=[]); timestamp defaults to utcnow()
NewResponse(query, t) ==
    [query |-> query, resolved |-> NoEntity, ratings |-> <<>>, notes |-> <<>>,
     timestamp |-> t, cached |-> FALSE]

\* datetime.isoformat() and datetime.fromisoformat()
IsoFormat(t) == <<"iso", t>>
FromIsoFormat(str) == str[2]

\* Dict[RatingAgency, AgencyRating]: a dict keeps its keys in insertion order, so
\* it is a sequence of (key, value) entries with distinct keys
DictKeys(d) == {d[i].key : i \in DOMAIN d}
DictGet(d, k) == (CHOOSE e \in {d[i] : i \in DOMAIN d} : e.key = k).value
\* d[k] = v
DictSet(d, k, v) ==
    IF k \in DictKeys(d)
    THEN [i \in DOMAIN d |-> IF d[i].key = k THEN [key |-> k, value |-> v] ELSE d[i]]
    ELSE Append(d, [key |-> k, value |-> v])

\* response.model_dump_json(): enum keys become their values, datetimes ISO strings
ModelDumpJson(r) ==
    [query |-> r.query, resolved |-> r.resolved,
     ratings |-> [i \in DOMAIN r.ratings |->
                    <<AgencyValue(r.ratings[i].key), r.ratings[i].value>>],
     notes |-> r.notes, timestamp |-> IsoFormat(r.timestamp), cached |-> r.cached]

\* RatingsResponse(**json.loads(response_json))
ModelLoadJson(j) ==
    [query |-> j.query, resolved |-> j.resolved,
     ratings |-> [i \in DOMAIN j.ratings |->
                    [key |-> AgencyOfValue(j.ratings[i][1]), value |-> j.ratings[i][2]]],
     notes |-> j.notes, timestamp |-> FromIsoFormat(j.timestamp), cached |-> j.cached]

----------------------------------------------------------------------------
(* CacheService *)

\* get returns None
Miss == [miss |-> TRUE]

\* the outcome of each storage operation a call may make: TRUE when it succeeds
IoOutcomes == [init : BOOLEAN, op : BOOLEAN, del : BOOLEAN]

\* CacheService.initialize: a no-op once initialized; the mkdir / connect /
\* CREATE TABLE of the first use raises when the store fails
Initialize(ready, ioOk) ==
    IF ready \/ ioOk
    THEN [raised |-> FALSE, ready |-> TRUE]
    ELSE [raised |-> TRUE, ready |-> FALSE]

NeverExpired(row, t) == FALSE
\* get: `if expires_at < now`
IsExpired(row, t) == row.expires_at < t

\* CacheService._delete_key: a failing DELETE is logged and swallowed
DeleteKey(tbl, key, ioOk) ==
    IF ioOk THEN [k \in DOMAIN tbl \ {key} |-> tbl[k]] ELSE tbl

NotMarkedCached(r) == r
\* get: `response.cached = True`
MarkCached(r) == [r EXCEPT !.cached = TRUE]

\* CacheService.get
CacheGetResult(ready, tbl, q, t, io) ==
    LET ini == Initialize(ready, io.init)
        key == GenerateCacheKey(q.name, q.country)
    IN  IF ini.raised
        THEN [raised |-> TRUE, result |-> Miss, ready |-> ini.ready, rows |-> tbl,
              failed |-> TRUE]
        ELSE IF ~io.op
        THEN [raised |-> FALSE, result |-> Miss, ready |-> ini.ready, rows |-> tbl,
              failed |-> TRUE]
        ELSE IF key \notin DOMAIN tbl
        THEN [raised |-> FALSE, result |-> Miss, ready |-> ini.ready, rows |-> tbl,
              failed |-> FALSE]
        ELSE IF IsExpired(tbl[key], t)
        THEN [raised |-> FALSE, result |-> Miss, ready |-> ini.ready,
              rows |-> DeleteKey(tbl, key, io.del), failed |-> ~io.del]
        ELSE [raised |-> FALSE,
              result |-> MarkCached(ModelLoadJson(tbl[key].response_data)),
              ready |-> ini.ready, rows |-> tbl, failed |-> FALSE]

InsertIfAbsent(tbl, key, row) ==
    [k \in DOMAIN tbl \cup {key} |-> IF k \in DOMAIN tbl THEN tbl[k] ELSE row]
\* INSERT OR REPLACE INTO ratings_cache
Upsert(tbl, key, row) ==
    [k \in DOMAIN tbl \cup {key} |-> IF k = key THEN row ELSE tbl[k]]

\* CacheService.set; response is the caller's object after the call
CacheSetResult(ready, tbl, q, resp, t, io) ==
    LET ini    == Initialize(ready, io.init)
        key    == GenerateCacheKey(q.name, q.country)
        stored == [resp EXCEPT !.cached = FALSE]
        \* the columns get reads back (company_name, country and created_at are
        \* written and never read)
        row    == [response_data |-> ModelDumpJson(stored),
                   expires_at |-> t + CacheTtl]
    IN  IF ini.raised
        THEN [raised |-> TRUE, ready |-> ini.ready, rows |-> tbl, response |-> resp,
              failed |-> TRUE]
        ELSE IF ~io.op
        THEN [raised |-> FALSE, ready |-> ini.ready, rows |-> tbl,
              response |-> stored, failed |-> TRUE]
        ELSE [raised |-> FALSE, ready |-> ini.ready, rows |-> Upsert(tbl, key, row),
              response |-> stored, failed |-> FALSE]

\* CacheService.cleanup_expired
CleanupResult(ready, tbl, t, io) ==
    LET ini  == Initialize(ready, io.init)
        gone == {k \in DOMAIN tbl : tbl[k].expires_at < t}
    IN  IF ini.raised
        THEN [raised |-> TRUE, ready |-> ini.ready, rows |-> tbl, deleted |-> 0]
        ELSE IF ~io.op
        THEN [raised |-> FALSE, ready |-> ini.ready, rows |-> tbl, deleted |-> 0]
        ELSE [raised |-> FALSE, ready |-> ini.ready,
              rows |-> [k \in DOMAIN tbl \ gone |-> tbl[k]],
              deleted |-> Cardinality(gone)]

\* CacheService.clear_all
ClearResult(ready, tbl, io) ==
    LET ini == Initialize(ready, io.init)
    IN  IF ini.raised
        THEN [raised |-> TRUE, ready |-> ini.ready, rows |-> tbl]
        ELSE IF ~io.op
        THEN [raised |-> FALSE, ready |-> ini.ready, rows |-> tbl]
        ELSE [raised |-> FALSE, ready |-> ini.ready, rows |-> <<>>]

\* The queries the cache is driven with: two spellings of one company, and the
\* same company in a country
CacheQueries ==
    {[name |-> <<"a">>, country |-> None],
     [name |-> <<" ", "A">>, country |-> None],
     [name |-> <<"a">>, country |-> Some(<<"A">>)]}

\* The responses given to set: one with no rating, one with a rating, fresh or
\* itself served from the cache
CacheResponses ==
    {[NewResponse(<<"a">>, 0) EXCEPT
        !.ratings = [i \in DOMAIN Agencies |->
                       [key |-> Agencies[i], value |-> AgencyRating(raw, FALSE, err)]],
        !.cached = c] :
     raw \in {"AA-"}, err \in {NoError}, c \in BOOLEAN}
    \cup
    {[NewResponse(<<"a">>, 0) EXCEPT
        !.ratings = [i \in DOMAIN Agencies |->
                       [key |-> Agencies[i],
                        value |-> AgencyRating("", FALSE,
                                     ErrorText("Could not resolve entity for",
                                               AgencyValue(Agencies[i]), 0))]],
        !.notes = <<[kind |-> "No rating found for",
                     agencies |-> <<"fitch", "sp", "moodys">>, count |-> 0,
                     confidence |-> 0]>>]}

\* no set just before
NoSet == [args |-> IdleArgs, value |-> Miss, ok |-> FALSE]

NoCacheCall ==
    [op |-> "none", args |-> IdleArgs, value |-> Miss, result |-> Miss,
     raised |-> FALSE, failed |-> FALSE, wasExpired |-> FALSE,
     wasSeenExpired |-> FALSE, deleted |-> 0, changed |-> FALSE, justSet |-> NoSet]

\* Only the storage operations a call makes can fail
IoFor(needsDelete) ==
    {io \in IoOutcomes : /\ (cacheReady => io.init)
                         /\ (~(needsDelete /\ io.init /\ io.op) => io.del)}

RowExpiresBefore(tbl, key, t) == key \in DOMAIN tbl /\ tbl[key].expires_at < t

\* await cache.get(company_name, country)
CacheGet(q) ==
    \E io \in IoFor(RowExpiresBefore(rows, Sha256(KeyData(q.name, q.country)), now)) :
        LET r   == CacheGetResult(cacheReady, rows, q, now, io)
            key == Sha256(KeyData(q.name, q.country))
        IN  /\ cacheReady' = r.ready
            /\ rows' = r.rows
            /\ cacheLast' = [NoCacheCall EXCEPT
                               !.op = "get", !.args = q, !.result = r.result,
                               !.raised = r.raised, !.failed = r.failed,
                               !.wasExpired = RowExpiresBefore(rows, key, now),
                               !.wasSeenExpired = key \in expiredSeen,
                               !.changed = r.rows # rows,
                               !.justSet =
                                   IF cacheLast.op = "set"
                                   THEN [args |-> cacheLast.args,
                                         value |-> cacheLast.value,
                                         ok |-> ~cacheLast.failed]
                                   ELSE NoSet]
            /\ expiredSeen' = IF RowExpiresBefore(rows, key, now)
                              THEN expiredSeen \cup {key} ELSE expiredSeen

\* await cache.set(company_name, country, response)
CacheSet(q, resp) ==
    \E io \in IoFor(FALSE) :
        LET r   == CacheSetResult(cacheReady, rows, q, resp, now, io)
            key == Sha256(KeyData(q.name, q.country))
        IN  /\ cacheReady' = r.ready
            /\ rows' = r.rows
            /\ cacheLast' = [NoCacheCall EXCEPT
                               !.op = "set", !.args = q, !.value = resp,
                               !.raised = r.raised, !.failed = r.failed,
                               !.changed = r.rows # rows]
            /\ expiredSeen' = expiredSeen \ {key}

\* await cache.cleanup_expired()
CacheCleanup ==
    \E io \in IoFor(FALSE) :
        LET r == CleanupResult(cacheReady, rows, now, io)
        IN  /\ cacheReady' = r.ready
            /\ rows' = r.rows
            /\ cacheLast' = [NoCacheCall EXCEPT
                               !.op = "cleanup", !.raised = r.raised,
                               !.deleted = r.deleted, !.changed = r.rows # rows]
            /\ UNCHANGED expiredSeen

\* await cache.clear_all()
CacheClear ==
    \E io \in IoFor(FALSE) :
        LET r == ClearResult(cacheReady, rows, io)
        IN  /\ cacheReady' = r.ready
            /\ rows' = r.rows
            /\ cacheLast' = [NoCacheCall EXCEPT
                               !.op = "clear", !.raised = r.raised,
                               !.changed = r.rows # rows]
            /\ UNCHANGED expiredSeen

\* time passes between two cache calls
CacheTick ==
    /\ now < CacheMaxTime
    /\ Tick
    /\ cacheLast' = [NoCacheCall EXCEPT !.op = "tick"]
    /\ UNCHANGED <<cacheReady, rows, expiredSeen>>

\* CacheService.__init__
CacheInit ==
    /\ cacheReady = FALSE
    /\ rows = <<>>
    /\ cacheLast = NoCacheCall
    /\ expiredSeen = {}

CacheCalls ==
    \/ \E q \in CacheQueries : CacheGet(q)
    \/ \E q \in CacheQueries, resp \in CacheResponses : CacheSet(q, resp)
    \/ CacheCleanup
    \/ CacheClear

----------------------------------------------------------------------------
(* RatingsService.get_ratings: the resolver and the scrapers it awaits *)

\* stop_after_attempt(3): page loads one _fetch_page call makes at most
MaxAttempts == 3

\* seconds the clock advances while get_ratings awaits
MaxWait == 1

\* _search_fitch / _search_sp / _search_moodys: the issuer page an agency's
\* search result links to
IssuerUrl(a) ==
    CASE a = "FITCH" -> "https://www.fitchratings.com/entity/a"
      [] a = "SP" -> "https://www.spglobal.com/ratings/en/entity/a"
      [] a = "MOODYS" -> "https://www.moodys.com/credit-ratings/a"

\* What resolver.resolve can return for an agency: a ResolvedEntity on the
\* agency's site (canonical_url is Optional in the schema), in one case with a
\* lower confidence and an alternative match
ResolvedEntities(a) ==
    {[name |-> <<"A">>, canonical_url |-> IssuerUrl(a), confidence |-> 90,
      ambiguous_candidates |-> 0],
     [name |-> <<"A">>, canonical_url |-> IssuerUrl(a), confidence |-> 60,
      ambiguous_candidates |-> 1],
     [name |-> <<"A">>, canonical_url |-> "", confidence |-> 90,
      ambiguous_candidates |-> 0]}

\* How an awaited resolver.resolve settles: it returns an entity, returns None,
\* or raises
ResolverOutcomes(a) ==
    {[kind |-> "entity", entity |-> e] : e \in ResolvedEntities(a)}
    \cup {[kind |-> "none", entity |-> NoEntity], [kind |-> "raise", entity |-> NoEntity]}

\* How the page load and extraction of an awaited scraper.scrape settle, once
\* the rate limiter has allowed it. statuses is the number of attempts of
\* _fetch_page answered 403 or 429: none of the failed attempts, or all of them.
\* kind is
\*   "rating":        a page was fetched and a rating found (on the page or in
\*                    the hardcoded fallback);
\*   "no_rating":     a page was fetched and no rating found;
\*   "extract_error": a page was fetched and the extraction raised;
\*   "fetch_failed":  all attempts of _fetch_page failed;
\*   "fetch_failed_fallback": the same, and the hardcoded fallback of the S&P
\*                    scraper's handler has a rating;
\*   "raise":         scrape itself raised, outside its own handler.
FetchOutcomes(a) ==
    {[kind |-> k, statuses |-> n] :
        k \in {"rating", "no_rating", "extract_error"}, n \in {0, MaxAttempts - 1}}
    \cup {[kind |-> "fetch_failed", statuses |-> n] : n \in {0, MaxAttempts}}
    \cup {[kind |-> "fetch_failed_fallback", statuses |-> n] :
             n \in IF a = "SP" THEN {0, MaxAttempts} ELSE {}}
    \cup {[kind |-> "raise", statuses |-> 0]}

\* _fetch_page returned a page
Fetched(o) == o.kind \in {"rating", "no_rating", "extract_error"}

\* scrape's `except Exception` handler ran
Handled(o) == o.kind \in {"extract_error", "fetch_failed", "fetch_failed_fallback"}

RECURSIVE Repeat(_, _)
Repeat(x, n) == IF n = 0 THEN <<>> ELSE <<x>> \o Repeat(x, n - 1)

\* The record_failure / record_success calls of one scrape, in order:
\* _fetch_page records a failure at each 403/429 attempt and a success when it
\* returns the page; scrape's handler records a failure
FetchCalls(o) ==
    Repeat("failure", o.statuses)
    \o (IF Fetched(o) THEN <<"success">> ELSE <<>>)
    \o (IF Handled(o) THEN <<"failure">> ELSE <<>>)

\* The page loads (page.goto) one scrape sends to its domain: _fetch_page loads
\* the page once per attempt; the attempts before a fetched page are the ones
\* answered 403 or 429
PageLoads(o) ==
    IF o.kind = "raise" THEN 0
    ELSE IF Fetched(o) THEN o.statuses + 1 ELSE MaxAttempts

\* The search pages one resolver.resolve loads from the agency's site:
\* _search_fitch / _search_sp / _search_moodys load one per name variation
\* tried, here the first variation only
SearchLoads == 1

NoTraffic == [requests |-> 0, acquires |-> 0, successes |-> 0, failures |-> 0]

\* the number of c in a sequence of calls
Count(calls, c) == Len(SelectSeq(calls, LAMBDA x : x = c))

\* the traffic after domain d was sent `loads` page loads and its circuit was
\* given the record calls
Sent(tr, d, loads, calls) ==
    [tr EXCEPT ![d] = [requests |-> @.requests + loads,
                       acquires |-> @.acquires,
                       successes |-> @.successes + Count(calls, "success"),
                       failures |-> @.failures + Count(calls, "failure")]]

\* The AgencyRating scrape returns for a settled page load
ScrapeResult(o) ==
    CASE o.kind \in {"rating", "fetch_failed_fallback"}
            -> AgencyRating("AA-", FALSE, NoError)
      [] o.kind = "no_rating"
            -> AgencyRating("", FALSE,
                            ErrorText("Could not extract rating from page", "", 0))
      [] o.kind \in {"extract_error", "fetch_failed"}
            -> AgencyRating("", FALSE, ErrorText("Scraping failed", "", 0))

NotMarkedBlocked(reason) ==
    AgencyRating("", FALSE, ErrorText(reason.kind, "", reason.wait))
\* scrape: `if not allowed: return AgencyRating(blocked=True, error=reason)`
BlockedRating(reason) ==
    AgencyRating("", TRUE, ErrorText(reason.kind, "", reason.wait))

\* get_ratings: the rating given to an agency whose entity has no URL
UnresolvedRating(a) ==
    AgencyRating("", FALSE, ErrorText("Could not resolve entity for", AgencyValue(a), 0))

\* get_ratings: the rating given to an agency whose scrape raised
ScrapingErrorRating == AgencyRating("", FALSE, ErrorText("Scraping error", "", 0))

\* `if entity and entity.canonical_url`
CanScrape(e) == e # NoEntity /\ e.canonical_url # ""

SelectLastBest(ents) ==
    LET valid == SelectSeq([i \in DOMAIN ents |-> ents[i].value],
                           LAMBDA e : e # NoEntity)
    IN  IF valid = <<>> THEN NoEntity
        ELSE valid[CHOOSE i \in DOMAIN valid :
                      /\ \A j \in DOMAIN valid : valid[j].confidence <= valid[i].confidence
                      /\ \A j \in (i + 1)..Len(valid) :
                            valid[j].confidence < valid[i].confidence]
\* _select_best_entity: the first of the entities with the highest confidence
\* (list.sort is stable), None when no agency resolved
SelectBestEntity(ents) ==
    LET valid == SelectSeq([i \in DOMAIN ents |-> ents[i].value],
                           LAMBDA e : e # NoEntity)
    IN  IF valid = <<>> THEN NoEntity
        ELSE valid[CHOOSE i \in DOMAIN valid :
                      /\ \A j \in DOMAIN valid : valid[j].confidence <= valid[i].confidence
                      /\ \A j \in 1..(i - 1) : valid[j].confidence < valid[i].confidence]

\* the keys of a dict, in order
KeySeq(d) == [i \in DOMAIN d |-> d[i].key]

\* get_ratings: scraping_tasks, the agencies to scrape in resolved_entities order
ScrapingTasks(ents) ==
    KeySeq(SelectSeq(ents, LAMBDA en : CanScrape(en.value)))

SkipsUnresolved(ents) == <<>>
\* get_ratings: response.ratings after the loop over resolved_entities: the error
\* entries of the agencies that cannot be scraped
UnresolvedRatings(ents) ==
    LET skipped == SelectSeq(ents, LAMBDA en : ~CanScrape(en.value))
    IN  [i \in DOMAIN skipped |->
           [key |-> skipped[i].key, value |-> UnresolvedRating(skipped[i].key)]]

\* One note of _generate_notes: its fixed text and the values formatted into it
Note(kind, agencies, count, confidence) ==
    [kind |-> kind, agencies |-> agencies, count |-> count, confidence |-> confidence]

\* agency.value of the entries of a dict, in dict order
AgencyValues(sel) == [i \in DOMAIN sel |-> AgencyValue(sel[i].key)]

\* `[agency.value for agency, rating in response.ratings.items() if rating.blocked]`
BlockedAgencies(ratings) ==
    AgencyValues(SelectSeq(ratings, LAMBDA en : en.value.blocked))

\* `... if not rating.raw and not rating.blocked`
MissingAgencies(ratings) ==
    AgencyValues(SelectSeq(ratings,
                           LAMBDA en : en.value.raw = "" /\ ~en.value.blocked))

NotesMissingBeforeAmbiguous(resp) ==
    LET blocked == BlockedAgencies(resp.ratings)
        missing == MissingAgencies(resp.ratings)
        res     == resp.resolved
    IN  (IF blocked # <<>>
         THEN <<Note("Scraping blocked for", blocked, 0, 0)>> ELSE <<>>)
        \o (IF missing # <<>>
            THEN <<Note("No rating found for", missing, 0, 0)>> ELSE <<>>)
        \o (IF res # NoEntity /\ res.ambiguous_candidates > 0
            THEN <<Note("Found alternative matches", <<>>, res.ambiguous_candidates,
                        res.confidence)>>
            ELSE <<>>)
        \o (IF res # NoEntity /\ res.confidence < 70
            THEN <<Note("Low confidence match", <<>>, 0, res.confidence)>> ELSE <<>>)

\* _generate_notes
GenerateNotes(resp) ==
    LET blocked == BlockedAgencies(resp.ratings)
        missing == MissingAgencies(resp.ratings)
        res     == resp.resolved
    IN  (IF blocked # <<>>
         THEN <<Note("Scraping blocked for", blocked, 0, 0)>> ELSE <<>>)
        \o (IF res # NoEntity /\ res.ambiguous_candidates > 0
            THEN <<Note("Found alternative matches", <<>>, res.ambiguous_candidates,
                        res.confidence)>>
            ELSE <<>>)
        \o (IF missing # <<>>
            THEN <<Note("No rating found for", missing, 0, 0)>> ELSE <<>>)
        \o (IF res # NoEntity /\ res.confidence < 70
            THEN <<Note("Low confidence match", <<>>, 0, res.confidence)>> ELSE <<>>)

\* the call get_ratings is awaiting: none, one that has not settled, or one that
\* has settled with an outcome
NoOutcome == [kind |-> "", entity |-> NoEntity, statuses |-> 0]
NotAwaiting == [state |-> "none", outcome |-> NoOutcome]
Pending == [state |-> "pending", outcome |-> NoOutcome]
Settled(o) ==
    [state |-> "settled",
     outcome |-> [kind |-> o.kind,
                  entity |-> IF "entity" \in DOMAIN o THEN o.entity ELSE NoEntity,
                  statuses |-> IF "statuses" \in DOMAIN o THEN o.statuses ELSE 0]]

\* what get_ratings gave its caller: nothing yet, a response, or an exception
NoResponse == NewResponse(<<>>, 0)
NoResult == [kind |-> "none", value |-> NoResponse]
Returned(resp) == [kind |-> "returned", value |-> resp]
Raised == [kind |-> "raised", value |-> NoResponse]

\* settings.scraping_allowed_fitch / _sp / _moodys (default True)
ScrapingAllowed(a) == TRUE

\* the query the service is called with
QueryInputs == {[name |-> <<"a">>, country |-> None]}

\* get_ratings(company_name, country) is called
QueryStart(q) ==
    /\ qpc = "idle"
    /\ qpc' = "cache_get"
    /\ qargs' = q
    /\ UNCHANGED <<qidx, awaited, entities, tasks, response, qout, traffic>>
    /\ UNCHANGED <<rlVars, keyVars, cacheVars>>

NeverHit(result) == FALSE
\* `if cached_result:` (a RatingsResponse is truthy, None is not)
IsHit(result) == result # Miss

\* `cached_result = await self.cache.get(...)`, the return on a hit, and the new
\* RatingsResponse and the first resolver.resolve on a miss
QueryCacheGet ==
    /\ qpc = "cache_get"
    /\ CacheGet(qargs)
    /\ IF cacheLast'.raised
       THEN /\ qout' = Raised
            /\ qpc' = "done"
            /\ UNCHANGED <<qidx, awaited, response>>
       ELSE IF IsHit(cacheLast'.result)
       THEN /\ qout' = Returned(cacheLast'.result)
            /\ qpc' = "done"
            /\ UNCHANGED <<qidx, awaited, response>>
       ELSE /\ response' = NewResponse(qargs.name, now)
            /\ qpc' = "resolving"
            /\ qidx' = 1
            /\ awaited' = Pending
            /\ UNCHANGED qout
    /\ UNCHANGED <<qargs, entities, tasks, traffic>>
    /\ UNCHANGED <<rlVars, keyVars>>

\* the awaited resolver.resolve settles
ResolverSettles ==
    /\ qpc = "resolving"
    /\ awaited = Pending
    /\ \E o \in ResolverOutcomes(Agencies[qidx]) : awaited' = Settled(o)
    /\ UNCHANGED <<qpc, qargs, qidx, entities, tasks, response, qout, traffic>>
    /\ UNCHANGED <<rlVars, keyVars, cacheVars>>

StopsAfterFirst(i) == FALSE
\* `for agency, task in resolution_tasks:` has agencies left after the i-th
MoreAgencies(i) == i < Len(Agencies)

\* `entity = await task` resumes: the entity, or None when resolve raised, is
\* stored; after the last agency, the best entity is chosen and the scrapes are
\* planned (resolved_entities is not read after that: the next step drops it)
QueryResolved ==
    /\ qpc = "resolving"
    /\ awaited.state = "settled"
    /\ LET a    == Agencies[qidx]
           o    == awaited.outcome
           ents == DictSet(entities, a,
                           IF o.kind = "entity" THEN o.entity ELSE NoEntity)
       IN  IF MoreAgencies(qidx)
           THEN /\ entities' = ents
                /\ qidx' = qidx + 1
                /\ awaited' = Pending
                /\ UNCHANGED <<qpc, tasks, response>>
           ELSE /\ entities' = ents
                /\ response' = [response EXCEPT
                                  !.resolved = SelectBestEntity(ents),
                                  !.ratings = UnresolvedRatings(ents)]
                /\ tasks' = ScrapingTasks(ents)
                /\ qidx' = 1
                /\ awaited' = NotAwaiting
                /\ qpc' = IF ScrapingTasks(ents) = <<>>
                          THEN "finishing" ELSE "scraping"
    /\ traffic' = Sent(traffic, AgencyDomain(Agencies[qidx]), SearchLoads, <<>>)
    /\ UNCHANGED <<qargs, qout>>
    /\ UNCHANGED <<rlVars, keyVars, cacheVars>>

\* the loop over scraping_tasks moves on after the rating of tasks[qidx] is stored
NextTask ==
    /\ awaited' = NotAwaiting
    /\ IF qidx < Len(tasks)
       THEN qidx' = qidx + 1 /\ qpc' = "scraping"
       ELSE qidx' = qidx /\ qpc' = "finishing"

\* `rating = await task` runs scraper.scrape up to its page load: the settings
\* check and the rate-limiter acquire, whose denial is returned as a blocked rating
QueryScrapeStart ==
    /\ qpc = "scraping"
    /\ awaited = NotAwaiting
    /\ LET a == tasks[qidx]
       IN  IF ~ScrapingAllowed(a)
           THEN /\ response' = [response EXCEPT
                                  !.ratings = DictSet(@, a,
                                      AgencyRating("", TRUE,
                                          ErrorText("scraping disabled in settings",
                                                    "", 0)))]
                /\ NextTask
                /\ UNCHANGED <<rlVars, traffic>>
           ELSE /\ Acquire(AgencyDomain(a))
                /\ traffic' = IF rlLast'.allowed
                              THEN [traffic EXCEPT
                                      ![AgencyDomain(a)].acquires = @ + 1]
                              ELSE traffic
                /\ IF rlLast'.allowed
                   THEN /\ awaited' = Pending
                        /\ UNCHANGED <<qpc, qidx, response>>
                   ELSE /\ response' = [response EXCEPT
                                          !.ratings = DictSet(@, a,
                                              BlockedRating(rlLast'.reason))]
                        /\ NextTask
    /\ entities' = <<>>
    /\ UNCHANGED <<qargs, tasks, qout>>
    /\ UNCHANGED <<keyVars, cacheVars>>

\* the page load and extraction of the awaited scraper.scrape settle
FetchSettles ==
    /\ qpc = "scraping"
    /\ awaited = Pending
    /\ \E o \in FetchOutcomes(tasks[qidx]) : awaited' = Settled(o)
    /\ UNCHANGED <<qpc, qargs, qidx, entities, tasks, response, qout, traffic>>
    /\ UNCHANGED <<rlVars, keyVars, cacheVars>>

\* `rating = await task` resumes: the scraper has recorded its successes and
\* failures, and its rating, or the error entry when scrape raised, is stored
QueryScraped ==
    /\ qpc = "scraping"
    /\ awaited.state = "settled"
    /\ LET a == tasks[qidx]
           o == awaited.outcome
       IN  /\ Record(AgencyDomain(a), FetchCalls(o))
           /\ traffic' = Sent(traffic, AgencyDomain(a), PageLoads(o), FetchCalls(o))
           /\ response' = [response EXCEPT
                             !.ratings = DictSet(@, a,
                                 IF o.kind = "raise" THEN ScrapingErrorRating
                                 ELSE ScrapeResult(o))]
    /\ NextTask
    /\ UNCHANGED <<qargs, entities, tasks, qout>>
    /\ UNCHANGED <<keyVars, cacheVars>>

\* the notes are generated, the response is cached and returned
QueryFinish ==
    /\ qpc = "finishing"
    /\ LET resp == [response EXCEPT !.notes = GenerateNotes(response)]
       IN  /\ CacheSet(qargs, resp)
           /\ response' = [resp EXCEPT
                             !.cached = IF cacheLast'.raised THEN @ ELSE FALSE]
    /\ qout' = IF cacheLast'.raised THEN Raised ELSE Returned(response')
    /\ qpc' = "done"
    /\ entities' = <<>>
    /\ UNCHANGED <<qargs, qidx, awaited, tasks, traffic>>
    /\ UNCHANGED <<rlVars, keyVars>>

\* no call of get_ratings yet
QueryIdle ==
    /\ qpc = "idle"
    /\ qargs = IdleArgs
    /\ qidx = 0
    /\ awaited = NotAwaiting
    /\ entities = <<>>
    /\ tasks = <<>>
    /\ response = NoResponse
    /\ qout = NoResult
    /\ traffic = [d \in AllDomains |-> NoTraffic]

\* the steps get_ratings takes by itself
QueryProgram ==
    \/ \E q \in QueryInputs : QueryStart(q)
    \/ QueryCacheGet
    \/ QueryResolved
    \/ QueryScrapeStart
    \/ QueryScraped
    \/ QueryFinish

\* a second passes while the awaited call has not settled
Wait ==
    /\ awaited = Pending
    /\ now < MaxWait
    /\ Tick
    /\ UNCHANGED <<keyVars, cacheVars, queryVars>>

\* the steps of the calls it awaits, and of the clock
QueryEnvironment ==
    \/ ResolverSettles
    \/ FetchSettles
    \/ Wait

\* States the rate limiter of one domain can be in when a query arrives: as
\* constructed; its tokens used up in the current window; its circuit opened by
\* CircuitThreshold failures
LimiterStates ==
    {[tokens |-> RequestsPerWindow, lastRefill |-> Unset, circuit |-> NewCircuit,
      allowedLog |-> <<>>, failStreak |-> 0, firstCalls |-> NoCalls],
     [tokens |-> 0, lastRefill |-> 0, circuit |-> NewCircuit,
      allowedLog |-> Repeat(0, RequestsPerWindow), failStreak |-> 0,
      firstCalls |-> [NoCalls EXCEPT !.start = 0,
                                     !.answers = Repeat(TRUE, RequestsPerWindow)]],
     [tokens |-> RequestsPerWindow, lastRefill |-> Unset,
      circuit |-> [state |-> "open", failure_count |-> CircuitThreshold,
                   last_failure_time |-> 0, success_count |-> 0],
      allowedLog |-> <<>>, failStreak |-> CircuitThreshold, firstCalls |-> NoCalls]}

\* the time at which the calls on two domains are made
OriginsStart == 2

\* States the rate limiter of one domain can be in at OriginsStart, with a
\* cooldown of one second: those of LimiterStates (as constructed; its tokens
\* used up at time 0; its circuit opened at time 0, the cooldown now over), and
\* its circuit opened just now
OriginStates ==
    LimiterStates
    \cup {[tokens |-> RequestsPerWindow, lastRefill |-> Unset,
           circuit |-> [state |-> "open", failure_count |-> CircuitThreshold,
                        last_failure_time |-> OriginsStart, success_count |-> 0],
           allowedLog |-> <<>>, failStreak |-> CircuitThreshold,
           firstCalls |-> NoCalls]}

RLOriginsInit ==
    /\ now = OriginsStart
    /\ circuitTimeout = 1
    /\ \E st \in [AllDomains -> OriginStates] :
          /\ st["moodys.com"].lastRefill = Unset
          /\ st["moodys.com"].circuit = NewCircuit
          /\ tokens = [d \in AllDomains |-> st[d].tokens]
          /\ lastRefill = [d \in AllDomains |-> st[d].lastRefill]
          /\ circuits = [d \in AllDomains |-> st[d].circuit]
          /\ allowedLog = [d \in AllDomains |-> st[d].allowedLog]
          /\ failStreak = [d \in AllDomains |-> st[d].failStreak]
          /\ firstCalls = [d \in AllDomains |-> st[d].firstCalls]
    /\ rlLast = NoCall
    /\ succInHalfOpen = [d \in AllDomains |-> 0]

RLQueryInit ==
    /\ now = 0
    /\ circuitTimeout = MaxCircuitTimeout
    /\ \E st \in [AllDomains -> LimiterStates] :
          /\ tokens = [d \in AllDomains |-> st[d].tokens]
          /\ lastRefill = [d \in AllDomains |-> st[d].lastRefill]
          /\ circuits = [d \in AllDomains |-> st[d].circuit]
          /\ allowedLog = [d \in AllDomains |-> st[d].allowedLog]
          /\ failStreak = [d \in AllDomains |-> st[d].failStreak]
          /\ firstCalls = [d \in AllDomains |-> st[d].firstCalls]
    /\ rlLast = NoCall
    /\ succInHalfOpen = [d \in AllDomains |-> 0]

\* The response of an earlier identical query for which no agency resolved
EarlierResponse ==
    LET ents == [i \in DOMAIN Agencies |-> [key |-> Agencies[i], value |-> NoEntity]]
        resp == [NewResponse(<<"a">>, 0) EXCEPT !.ratings = UnresolvedRatings(ents)]
    IN  [resp EXCEPT !.notes = GenerateNotes(resp)]

\* the cache already holds the response of that earlier query
CacheWarm ==
    /\ cacheReady = TRUE
    /\ rows = CacheSetResult(TRUE, <<>>, [name |-> <<"a">>, country |-> None],
                             EarlierResponse, 0,
                             [init |-> TRUE, op |-> TRUE, del |-> TRUE]).rows
    /\ cacheLast = NoCacheCall
    /\ expiredSeen = {}

----------------------------------------------------------------------------
(* Two calls of get_ratings on one service: one rate limiter, one cache *)

PairMaxTime == 3

CallIds == {1, 2}

\* the arguments of the two calls: two spellings with one cache key
CallArgs ==
    <<[name |-> <<"a">>, country |-> None], [name |-> <<" ", "A">>, country |-> None]>>

\* a call not made yet. seen is the number of cache writes made before the
\* call's lookup (Unset before the lookup); set is how the call's cache.set went
\* ("none" before it)
IdleCall ==
    [pc |-> "idle", awaiting |-> FALSE, tasks |-> <<>>, idx |-> 0,
     response |-> NoResponse, out |-> NoResult, acquired |-> 0, seen |-> Unset,
     hit |-> FALSE, set |-> "none"]

\* What the resolvers of one call return, as resolved_entities: no agency
\* resolved, or Fitch alone resolved
PairResolutions ==
    {[i \in DOMAIN Agencies |-> [key |-> Agencies[i], value |-> NoEntity]],
     [i \in DOMAIN Agencies |->
        [key |-> Agencies[i],
         value |-> IF Agencies[i] = "FITCH"
                   THEN [name |-> <<"A">>, canonical_url |-> IssuerUrl("FITCH"),
                         confidence |-> 90, ambiguous_candidates |-> 0]
                   ELSE NoEntity]]}

\* How an allowed scrape of one call settles: a rating, or every attempt of
\* _fetch_page answered 403 or 429
PairFetchOutcomes ==
    {[kind |-> "rating", statuses |-> 0],
     [kind |-> "fetch_failed", statuses |-> MaxAttempts]}

\* the loop over scraping_tasks of a call moves on
NextTaskOf(cl) ==
    IF cl.idx < Len(cl.tasks)
    THEN [cl EXCEPT !.idx = cl.idx + 1, !.awaiting = FALSE]
    ELSE [cl EXCEPT !.pc = "finishing", !.awaiting = FALSE]

\* get_ratings is called: `cached_result = await self.cache.get(...)`, the return
\* on a hit and the new RatingsResponse on a miss
PairCacheGet(c) ==
    /\ pair[c].pc = "idle"
    /\ CacheGet(CallArgs[c])
    /\ pair' = [pair EXCEPT ![c] =
                   IF cacheLast'.raised
                   THEN [@ EXCEPT !.pc = "done", !.out = Raised, !.seen = Len(writes)]
                   ELSE IF IsHit(cacheLast'.result)
                   THEN [@ EXCEPT !.pc = "done", !.hit = TRUE, !.seen = Len(writes),
                                  !.out = Returned(cacheLast'.result)]
                   ELSE [@ EXCEPT !.pc = "resolving", !.seen = Len(writes),
                                  !.response = NewResponse(CallArgs[c].name, now)]]
    /\ UNCHANGED <<writes, rlVars, keyVars, queryVars>>

\* the resolvers of every agency have been awaited: the best entity is chosen
\* and the scrapes are planned
PairResolved(c) ==
    /\ pair[c].pc = "resolving"
    /\ \E ents \in PairResolutions :
          pair' = [pair EXCEPT ![c] =
                      [@ EXCEPT !.response = [@ EXCEPT
                                    !.resolved = SelectBestEntity(ents),
                                    !.ratings = UnresolvedRatings(ents)],
                                !.tasks = ScrapingTasks(ents),
                                !.idx = 1,
                                !.pc = IF ScrapingTasks(ents) = <<>>
                                       THEN "finishing" ELSE "scraping"]]
    /\ UNCHANGED <<writes, rlVars, keyVars, cacheVars, queryVars>>

\* scraper.scrape up to its page load: the rate-limiter acquire, whose denial is
\* returned as a blocked rating
PairScrapeStart(c) ==
    /\ pair[c].pc = "scraping"
    /\ ~pair[c].awaiting
    /\ LET a == pair[c].tasks[pair[c].idx]
       IN  /\ Acquire(AgencyDomain(a))
           /\ pair' = [pair EXCEPT ![c] =
                          IF rlLast'.allowed
                          THEN [@ EXCEPT !.awaiting = TRUE, !.acquired = @ + 1]
                          ELSE NextTaskOf([@ EXCEPT !.response.ratings =
                                   DictSet(@, a, BlockedRating(rlLast'.reason))])]
    /\ UNCHANGED <<writes, keyVars, cacheVars, queryVars>>

\* the awaited scrape settles: its successes and failures are recorded and its
\* rating is stored
PairScraped(c) ==
    /\ pair[c].pc = "scraping"
    /\ pair[c].awaiting
    /\ \E o \in PairFetchOutcomes :
          LET a == pair[c].tasks[pair[c].idx]
          IN  /\ Record(AgencyDomain(a), FetchCalls(o))
              /\ pair' = [pair EXCEPT ![c] =
                             NextTaskOf([@ EXCEPT !.response.ratings =
                                            DictSet(@, a, ScrapeResult(o))])]
    /\ UNCHANGED <<writes, keyVars, cacheVars, queryVars>>

\* the notes are generated, the response is cached and returned
PairFinish(c) ==
    /\ pair[c].pc = "finishing"
    /\ LET resp == [pair[c].response EXCEPT
                      !.notes = GenerateNotes(pair[c].response)]
       IN  /\ CacheSet(CallArgs[c], resp)
           /\ pair' = [pair EXCEPT ![c] =
                          [@ EXCEPT !.pc = "done",
                                    !.response = resp,
                                    !.set = IF cacheLast'.raised THEN "raised"
                                            ELSE IF cacheLast'.failed THEN "failed"
                                            ELSE "stored",
                                    !.out = IF cacheLast'.raised THEN Raised
                                            ELSE Returned([resp EXCEPT !.cached = FALSE])]]
           /\ writes' = IF cacheLast'.raised \/ cacheLast'.failed THEN writes
                        ELSE Append(writes, [call |-> c,
                                             response |-> [resp EXCEPT !.cached = FALSE]])
    /\ UNCHANGED <<rlVars, keyVars, queryVars>>

\* time passes while the two calls run
PairTick ==
    /\ now < PairMaxTime
    /\ Tick
    /\ UNCHANGED <<pairVars, keyVars, cacheVars, queryVars>>

\* neither call made yet, nothing written
PairIdle ==
    /\ pair = [c \in CallIds |-> IdleCall]
    /\ writes = <<>>

PairCalls ==
    \E c \in CallIds :
        \/ PairCacheGet(c)
        \/ PairResolved(c)
        \/ PairScrapeStart(c)
        \/ PairScraped(c)
        \/ PairFinish(c)

----------------------------------------------------------------------------
(* Callers that acquire, request and record the outcome *)

\* the callers use the rate limiter only
HealFrame == UNCHANGED <<keyVars, cacheVars, queryVars, pairVars>>

\* if await rate_limiter.acquire(domain): the request is made
HealAcquire(d) ==
    /\ Acquire(d)
    /\ inFlight' = [inFlight EXCEPT ![d] = IF rlLast'.allowed THEN @ + 1 ELSE @]
    /\ HealFrame

\* the request of an allowed acquire succeeded: rate_limiter.record_success(domain)
HealSuccess(d) ==
    /\ inFlight[d] > 0
    /\ RecordSuccess(d)
    /\ inFlight' = [inFlight EXCEPT ![d] = @ - 1]
    /\ HealFrame

\* a request failed: rate_limiter.record_failure(domain); the failures all come
\* in the first second
HealFailure(d) ==
    /\ now = 0
    /\ RecordFailure(d)
    /\ inFlight' = [inFlight EXCEPT ![d] = IF @ > 0 THEN @ - 1 ELSE @]
    /\ HealFrame

\* a second passes
HealTick == Tick /\ UNCHANGED healVars /\ HealFrame

\* no request in flight
HealIdle == inFlight = [d \in AllDomains |-> 0]

HealCalls ==
    \E d \in Domains :
        \/ HealAcquire(d)
        \/ HealSuccess(d)
        \/ HealFailure(d)

----------------------------------------------------------------------------
(* Specifications *)

\* the rate limiter under any sequence of calls and clock advances
Init == RLInit /\ KeyIdle /\ CacheInit /\ QueryIdle /\ PairIdle /\ HealIdle

Next == RLNext /\ UNCHANGED <<keyVars, cacheVars, queryVars, pairVars, healVars>>

Spec == Init /\ [][Next]_vars

\* _generate_cache_key on any two queries
InitKey == RLIdle /\ KeyInit /\ CacheInit /\ QueryIdle /\ PairIdle /\ HealIdle

NextKey ==
    GenerateKeys /\ UNCHANGED <<rlVars, cacheVars, queryVars, pairVars, healVars>>

SpecKey == InitKey /\ [][NextKey]_vars

\* the cache under any sequence of calls, storage failures and clock advances
InitCache == RLIdle /\ KeyIdle /\ CacheInit /\ QueryIdle /\ PairIdle /\ HealIdle

NextCache ==
    \/ CacheCalls /\ UNCHANGED <<rlVars, keyVars, queryVars, pairVars, healVars>>
    \/ CacheTick /\ UNCHANGED <<keyVars, queryVars, pairVars, healVars>>

SpecCache == InitCache /\ [][NextCache]_vars

\* one call of get_ratings, on a rate limiter and a cache in any of the states
\* earlier calls can leave them in
InitQuery ==
    /\ RLQueryInit /\ KeyIdle /\ (CacheInit \/ CacheWarm) /\ QueryIdle /\ PairIdle
    /\ HealIdle

NextQuery == (QueryProgram \/ QueryEnvironment) /\ UNCHANGED <<pairVars, healVars>>

SpecQuery == InitQuery /\ [][NextQuery]_vars

\* the rate limiter under any sequence of calls on two domains, each domain
\* starting in any of the states earlier calls can leave it in
InitOrigins ==
    RLOriginsInit /\ KeyIdle /\ CacheInit /\ QueryIdle /\ PairIdle /\ HealIdle

NextOrigins ==
    OriginCalls /\ UNCHANGED <<keyVars, cacheVars, queryVars, pairVars, healVars>>

SpecOrigins == InitOrigins /\ [][NextOrigins]_vars

\* two calls of get_ratings with one cache key, in any interleaving of their
\* steps, on a new rate limiter and an empty cache
InitPair == RLIdle /\ KeyIdle /\ CacheInit /\ QueryIdle /\ PairIdle /\ HealIdle

NextPair == (PairCalls \/ PairTick) /\ UNCHANGED healVars

SpecPair == InitPair /\ [][NextPair]_vars

\* callers whose requests fail in the first second and succeed from then on:
\* they go on acquiring, and each allowed acquire is followed by the record of
\* its request's outcome, while the clock advances
InitHeal == RLInit /\ KeyIdle /\ CacheInit /\ QueryIdle /\ PairIdle /\ HealIdle

NextHeal == HealCalls \/ HealTick

\* the clock advances, a caller that can acquire does, and a request in flight
\* ends in its record_success
HealFairness ==
    /\ WF_vars(HealTick)
    /\ \A d \in Domains : WF_vars(HealAcquire(d)) /\ WF_vars(HealSuccess(d))

SpecHeal == InitHeal /\ [][NextHeal]_vars /\ HealFairness

----------------------------------------------------------------------------
(* Rate limiter and circuit breaker: claims *)

\* Number of the allowed acquires on d logged at or after time t
AllowedSince(d, t) == Len(SelectSeq(allowedLog[d], LAMBDA x : x >= t))

\* C1 (as stated): in every interval of WindowSeconds, at most RequestsPerWindow
\* acquires on a domain are allowed. allowedLog[d] holds the allowed acquires of
\* the window of WindowSeconds that ends now.
C1_RollingWindowLimit ==
    \A d \in Domains : Len(allowedLog[d]) <= RequestsPerWindow

\* C1 (amended): at most RequestsPerWindow acquires are allowed in the window that
\* starts at the last refill, and at most 2 * RequestsPerWindow - 1 in any rolling
\* interval of WindowSeconds (the acquire that refills takes a token itself).
C1_RefillWindowLimit ==
    \A d \in Domains :
        /\ Len(allowedLog[d]) <= 2 * RequestsPerWindow - 1
        /\ (lastRefill[d] # Unset /\ now - lastRefill[d] < WindowSeconds)
              => AllowedSince(d, lastRefill[d]) <= RequestsPerWindow

\* C1 witness: bursts on both sides of a refill inside one rolling window
C1_Witness ==
    \E d \in Domains :
        /\ Len(allowedLog[d]) = 2 * RequestsPerWindow - 1
        /\ AllowedSince(d, lastRefill[d]) = RequestsPerWindow

\* C2: after CircuitThreshold RecordFailure calls in a row with no RecordSuccess
\* between them, an Acquire made while no more than the cooldown has passed since
\* the last failure is denied with the circuit-open reason.
C2_DeniedUntilCooldown ==
    \A d \in Domains :
        (/\ rlLast.op = "acquire" /\ rlLast.domain = d
         /\ failStreak[d] >= CircuitThreshold
         /\ now - circuits[d].last_failure_time <= circuitTimeout)
        => (~rlLast.allowed /\ rlLast.reason = CircuitOpenReason)

\* C2 witness: an Acquire denied at the last instant of the cooldown
C2_Witness ==
    \E d \in Domains :
        /\ rlLast.op = "acquire" /\ rlLast.domain = d
        /\ failStreak[d] >= CircuitThreshold
        /\ now - circuits[d].last_failure_time = circuitTimeout
        /\ ~rlLast.allowed /\ rlLast.reason = CircuitOpenReason

\* C3 (as stated): the first Acquire on an open circuit after the cooldown is
\* allowed and leaves the circuit half-open, whatever the token bucket holds.
C3_ProbeAlwaysAllowed ==
    \A d \in Domains :
        (rlLast.op = "acquire" /\ rlLast.domain = d /\ rlLast.pre = "open"
         /\ rlLast.elapsed)
        => (rlLast.allowed /\ circuits[d].state = "half_open")

\* C3 (amended): the first Acquire on an open circuit after the cooldown leaves the
\* circuit half-open and is never denied for the circuit; it is allowed whenever
\* the cooldown is at least the rate-limit window, and otherwise it can only be
\* denied for the rate limit.
C3_ProbeHalfOpens ==
    \A d \in Domains :
        (rlLast.op = "acquire" /\ rlLast.domain = d /\ rlLast.pre = "open"
         /\ rlLast.elapsed)
        => /\ circuits[d].state = "half_open"
           /\ rlLast.reason # CircuitOpenReason
           /\ (circuitTimeout >= WindowSeconds => rlLast.allowed)
           /\ (~rlLast.allowed => rlLast.reason.kind = "rate_limit")

\* C3 witness: a probe allowed after a cooldown as long as the window, on a bucket
\* it had to refill
C3_Witness ==
    \E d \in Domains :
        /\ rlLast.op = "acquire" /\ rlLast.domain = d /\ rlLast.pre = "open"
        /\ rlLast.elapsed /\ rlLast.allowed
        /\ circuitTimeout >= WindowSeconds
        /\ circuits[d].state = "half_open"
        /\ lastRefill[d] = now /\ tokens[d] = RequestsPerWindow - 1

\* C4: a half-open circuit closes exactly on the second of two RecordSuccess calls
\* in a row since it went half-open, and then both counters are 0; one success
\* alone, an Acquire or a failure never closes it.
C4_ClosesOnSecondSuccess ==
    \A d \in Domains :
        /\ circuits[d].state = "half_open" => succInHalfOpen[d] < 2
        /\ (rlLast.domain = d /\ rlLast.pre = "half_open" /\ rlLast.op = "success")
              => /\ (circuits[d].state = "closed") <=> (succInHalfOpen[d] = 2)
                 /\ circuits[d].state \in {"closed", "half_open"}
                 /\ circuits[d].state = "closed"
                       => /\ circuits[d].failure_count = 0
                          /\ circuits[d].success_count = 0
        /\ (rlLast.domain = d /\ rlLast.pre = "half_open" /\ rlLast.op # "success")
              => circuits[d].state # "closed"

\* C4 witness: the second success in a row closed a half-open circuit
C4_Witness ==
    \E d \in Domains :
        /\ rlLast.op = "success" /\ rlLast.domain = d /\ rlLast.pre = "half_open"
        /\ succInHalfOpen[d] = 2
        /\ circuits[d].state = "closed"
        /\ circuits[d].failure_count = 0 /\ circuits[d].success_count = 0

----------------------------------------------------------------------------
(* Cache key: claims *)

\* equal after trimming and lowercasing
SameModuloCaseAndBlanks(s1, s2) == Strip(Lower(s1)) = Strip(Lower(s2))

SameCountryModuloCaseAndBlanks(c1, c2) ==
    /\ c1.some = c2.some
    /\ SameModuloCaseAndBlanks(c1.val, c2.val)

\* C5: two queries whose names and whose countries are equal after trimming and
\* lowercasing get the same cache key (as "Acme Inc", "US" and "  acme inc ", "us").
C5_KeyIgnoresCaseAndBlanks ==
    (/\ keyOut # NoKeys
     /\ SameModuloCaseAndBlanks(keyArgs[1].name, keyArgs[2].name)
     /\ SameCountryModuloCaseAndBlanks(keyArgs[1].country, keyArgs[2].country))
    => keyOut[1] = keyOut[2]

----------------------------------------------------------------------------
(* Cache: claims *)

\* the key of the last cache call
LastKey == Sha256(KeyData(cacheLast.args.name, cacheLast.args.country))

\* C7: when a storage operation fails, get returns a miss and set changes nothing,
\* and neither raises to its caller.
C7_CacheNeverRaises ==
    cacheLast.op \in {"get", "set"}
    => /\ ~cacheLast.raised
       /\ cacheLast.failed
             => /\ cacheLast.op = "get" => cacheLast.result = Miss
                /\ cacheLast.op = "set" => ~cacheLast.changed

\* C9: with the store available, a get that immediately follows a set on the same
\* key returns the value given to set, with cached = TRUE.
C9_SetThenGetRoundTrip ==
    (/\ cacheLast.op = "get"
     /\ cacheLast.justSet.ok
     /\ Sha256(KeyData(cacheLast.justSet.args.name, cacheLast.justSet.args.country))
           = LastKey
     /\ ~cacheLast.failed)
    => /\ ~cacheLast.raised
       /\ cacheLast.result = [cacheLast.justSet.value EXCEPT !.cached = TRUE]

\* C9 witness: a fresh response with ratings, set under one spelling and read back
\* under another
C9_Witness ==
    /\ cacheLast.op = "get"
    /\ cacheLast.justSet.ok
    /\ cacheLast.justSet.args # cacheLast.args
    /\ ~cacheLast.failed
    /\ ~cacheLast.justSet.value.cached
    /\ cacheLast.result # Miss
    /\ cacheLast.result.cached
    /\ DictGet(cacheLast.result.ratings, "FITCH").raw = "AA-"

\* C10 (as stated): a get on a row past its expires_at returns a miss and the row
\* is gone afterwards, and a later get with no set in between is a miss too.
C10_ExpiredRowRemovedOnRead ==
    /\ (cacheLast.op = "get" /\ cacheLast.wasExpired)
          => (~cacheLast.raised /\ cacheLast.result = Miss
              /\ LastKey \notin DOMAIN rows)
    /\ (cacheLast.op = "get" /\ cacheLast.wasSeenExpired)
          => (~cacheLast.raised /\ cacheLast.result = Miss)

\* C10 (amended): a get on a row past its expires_at, and any later get on that key
\* with no set in between, never returns the row; the row is gone after the get
\* when none of its storage operations failed.
C10_ExpiredNeverReturned ==
    /\ (cacheLast.op = "get" /\ (cacheLast.wasExpired \/ cacheLast.wasSeenExpired))
          => cacheLast.result = Miss
    /\ (cacheLast.op = "get" /\ cacheLast.wasExpired /\ ~cacheLast.failed)
          => (~cacheLast.raised /\ LastKey \notin DOMAIN rows)

\* C10 witness: a get found the row expired a second time (the first DELETE
\* failed), removed it and returned a miss
C10_Witness ==
    /\ cacheLast.op = "get"
    /\ cacheLast.wasExpired /\ cacheLast.wasSeenExpired
    /\ ~cacheLast.failed
    /\ cacheLast.changed
    /\ cacheLast.result = Miss
    /\ LastKey \notin DOMAIN rows

----------------------------------------------------------------------------
(* get_ratings: claims *)

\* the call went past the cache lookup to the sources and has ended
DoneViaSources == qpc = "done" /\ cacheLast.op = "set"

\* the error texts of the entries of a ratings dict
ErrorTexts(ratings) == {ratings[i].value.error.msg : i \in DOMAIN ratings}

\* C6: whatever the resolver and the scraper of each agency do (an entity, None
\* or an exception; a rating, a blocked or failed rating, or an exception), the
\* call returns a response whose ratings have exactly one entry per agency, and
\* no exception of a source reaches the caller.
C6_OneEntryPerAgency ==
    /\ DoneViaSources
          => /\ qout.kind = "returned"
             /\ Len(qout.value.ratings) = Len(Agencies)
             /\ DictKeys(qout.value.ratings) = AgencySet
    /\ qpc \in {"resolving", "scraping", "finishing"} => qout = NoResult

\* C6 witness: a returned response in which one agency did not resolve, one was
\* blocked by the rate limiter and the scrape of the third raised
C6_Witness ==
    /\ DoneViaSources
    /\ qout.kind = "returned"
    /\ {"Could not resolve entity for", "Scraping error"}
          \subseteq ErrorTexts(qout.value.ratings)
    /\ \E i \in DOMAIN qout.value.ratings : qout.value.ratings[i].value.blocked

\* C8: the wait of get_ratings is bounded: when the call it awaits has not
\* settled and the clock has run out, get_ratings has a step of its own to take
\* (recording the source as timed out and moving on).
C8_WaitIsBounded ==
    (awaited = Pending /\ now = MaxWait) => ENABLED QueryProgram

\* the per-agency candidates, in RatingAgency declaration order (None is NoEntity)
Candidates == [i \in DOMAIN entities |-> entities[i].value]

\* best is the candidate with the highest confidence, the earliest in
\* declaration order of those that tie on it, and None iff no agency resolved
IsBestCandidate(best, cand) ==
    /\ best = NoEntity <=> \A i \in DOMAIN cand : cand[i] = NoEntity
    /\ best # NoEntity
          => \E i \in DOMAIN cand :
                /\ cand[i] = best
                /\ \A j \in DOMAIN cand : cand[j].confidence <= best.confidence
                /\ \A j \in 1..(i - 1) : cand[j].confidence < best.confidence

\* C11: the resolved entity of the response is the per-agency candidate with the
\* highest confidence, the earliest agency in declaration order winning a tie,
\* and None iff no agency resolved; it is the resolved entity get_ratings returns.
C11_BestCandidateWins ==
    [][/\ (qpc = "resolving" /\ qpc' \in {"scraping", "finishing"})
             => /\ KeySeq(entities') = Agencies
                /\ IsBestCandidate(response'.resolved, Candidates')
       /\ (qpc \in {"scraping", "finishing"} /\ qpc' \in {"scraping", "finishing"})
             => response'.resolved = response.resolved
       /\ (qpc = "finishing" /\ qpc' = "done")
             => /\ qout'.kind = "returned"
                /\ qout'.value.resolved = response.resolved]_vars

\* C11 witness: FITCH resolved with confidence 0.6, SP and MOODYS tie on 0.9, and
\* the resolved entity is SP's
C11_Witness ==
    /\ qpc = "scraping"
    /\ Len(entities) = Len(Agencies)
    /\ Candidates[1].confidence = 60
    /\ Candidates[2].confidence = 90 /\ Candidates[2].canonical_url = IssuerUrl("SP")
    /\ Candidates[3].confidence = 90 /\ Candidates[3].canonical_url = IssuerUrl("MOODYS")
    /\ response.resolved = Candidates[2]

\* C12: when the cache lookup of get_ratings is a hit, the call returns the cached
\* response at once: the rate limiter (tokens, refill times, circuits) and the
\* cache table are left as they were, no resolver or scraper call is awaited,
\* and nothing happens for that call afterwards.
C12_HitShortCircuits ==
    [][/\ (qpc = "cache_get" /\ ~cacheLast'.raised /\ cacheLast'.result # Miss)
             => /\ qpc' = "done"
                /\ qout' = Returned(cacheLast'.result)
                /\ awaited' = NotAwaiting
                /\ rows' = rows
                /\ UNCHANGED <<tokens, lastRefill, circuits, allowedLog, rlLast,
                               entities, tasks>>
       /\ qpc = "done" => UNCHANGED vars]_vars

\* C12 witness: the call has returned the response an earlier call stored, and
\* the rate limiter has not been called
C12_Witness ==
    /\ qpc = "done"
    /\ cacheLast.op = "get"
    /\ qout.kind = "returned"
    /\ qout.value.cached
    /\ qout.value.ratings = EarlierResponse.ratings
    /\ rlLast = NoCall

\* C13: when the acquire of a scrape is denied (circuit open or no tokens), the
\* agency's entry is a blocked rating whose error is the limiter's reason, no page
\* load is awaited or sent for it, and the entry and the domain's page loads stay
\* as they are until the response is returned.
C13_DeniedIsBlocked ==
    [][/\ (qpc = "scraping" /\ awaited = NotAwaiting
              /\ rlLast'.op = "acquire" /\ ~rlLast'.allowed)
             => LET a == tasks[qidx]
                    r == DictGet(response'.ratings, a)
                IN  /\ rlLast'.domain = AgencyDomain(a)
                    /\ rlLast'.reason.kind \in {"circuit_open", "rate_limit"}
                    /\ r.blocked /\ r.raw = ""
                    /\ r.error.msg = rlLast'.reason.kind
                    /\ r.error.wait = rlLast'.reason.wait
                    /\ awaited' = NotAwaiting
                    /\ traffic' = traffic
       /\ qpc \in {"scraping", "finishing"}
             => \A i \in DOMAIN response.ratings :
                   response.ratings[i].value.blocked
                      => /\ response'.ratings[i] = response.ratings[i]
                         /\ traffic'[AgencyDomain(response.ratings[i].key)].requests
                               = traffic[AgencyDomain(response.ratings[i].key)].requests
                         /\ qpc' = "done" => qout'.value.ratings[i] = response.ratings[i]
      ]_vars

\* C13 witness: the returned response has an agency blocked by an open circuit
\* and one blocked for lack of tokens, and their domains were sent the
\* resolver's search page only
C13_Witness ==
    /\ DoneViaSources
    /\ qout.kind = "returned"
    /\ \E i, j \in DOMAIN qout.value.ratings :
          LET ri == qout.value.ratings[i]
              rj == qout.value.ratings[j]
          IN  /\ ri.value.blocked /\ ri.value.error.msg = "circuit_open"
              /\ rj.value.blocked /\ rj.value.error.msg = "rate_limit"
              /\ rj.value.error.wait > 0
              /\ traffic[AgencyDomain(ri.key)].requests = SearchLoads
              /\ traffic[AgencyDomain(rj.key)].requests = SearchLoads
              /\ traffic[AgencyDomain(ri.key)].acquires = 0

\* C14: at every point the number of page loads sent to a domain since the call
\* began is at most the number of allowed acquires on that domain since then.
C14_RequestsWithinAcquires ==
    \A d \in AllDomains : traffic[d].requests <= traffic[d].acquires

\* C15: at every point the record_success and record_failure calls made on a
\* domain's circuit since the call began number at most the allowed acquires on
\* that domain: one outcome per allowed fetch, never a success and a failure
\* for the same fetch, never more than one failure for one acquire.
C15_OneRecordPerAcquire ==
    \A d \in AllDomains :
        traffic[d].successes + traffic[d].failures <= traffic[d].acquires

\* the place of a note in the fixed order
NoteRank(kind) ==
    CASE kind = "Scraping blocked for" -> 1
      [] kind = "Found alternative matches" -> 2
      [] kind = "No rating found for" -> 3
      [] kind = "Low confidence match" -> 4
      [] OTHER -> 0

\* the notes of a response of the given kind
NotesOfKind(resp, kind) ==
    {i \in DOMAIN resp.notes : resp.notes[i].kind = kind}

\* the agency values of the entries of a ratings dict that satisfy a test on
\* (raw, blocked)
AgenciesWhere(ratings, blockedWanted, rawWanted) ==
    {AgencyValue(ratings[i].key) :
        i \in {j \in DOMAIN ratings :
                  /\ ratings[j].value.blocked = blockedWanted
                  /\ (ratings[j].value.raw # "") = rawWanted}}

\* the notes of a response are in the fixed order, each present exactly when its
\* condition holds on the response's resolved entity and ratings, and list the
\* agencies, count and confidence of that response
NotesFollowResponse(resp) ==
    LET notes == resp.notes
        res == resp.resolved
        blocked == AgenciesWhere(resp.ratings, TRUE, FALSE)
                       \cup AgenciesWhere(resp.ratings, TRUE, TRUE)
        missing == AgenciesWhere(resp.ratings, FALSE, FALSE)
    IN  /\ \A i, j \in DOMAIN notes :
              i < j => 0 < NoteRank(notes[i].kind)
                         /\ NoteRank(notes[i].kind) < NoteRank(notes[j].kind)
        /\ \A i \in DOMAIN notes : NoteRank(notes[i].kind) > 0
        /\ NotesOfKind(resp, "Scraping blocked for") # {} <=> blocked # {}
        /\ NotesOfKind(resp, "Found alternative matches") # {}
              <=> (res # NoEntity /\ res.ambiguous_candidates > 0)
        /\ NotesOfKind(resp, "No rating found for") # {} <=> missing # {}
        /\ NotesOfKind(resp, "Low confidence match") # {}
              <=> (res # NoEntity /\ res.confidence < 70)
        /\ \A i \in NotesOfKind(resp, "Scraping blocked for") :
              {notes[i].agencies[k] : k \in DOMAIN notes[i].agencies} = blocked
        /\ \A i \in NotesOfKind(resp, "No rating found for") :
              {notes[i].agencies[k] : k \in DOMAIN notes[i].agencies} = missing
        /\ \A i \in NotesOfKind(resp, "Found alternative matches") :
              /\ notes[i].count = res.ambiguous_candidates
              /\ notes[i].confidence = res.confidence
        /\ \A i \in NotesOfKind(resp, "Low confidence match") :
              notes[i].confidence = res.confidence

\* C16: the notes of a response built from the sources depend only on its
\* resolved entity and ratings and come in the fixed order blocked agencies,
\* alternative matches, missing ratings, low confidence, each present exactly
\* when its condition holds, whatever the resolvers and scrapers did and in
\* whatever order the limiter let them through.
C16_NotesInFixedOrder ==
    [][(qpc = "finishing" /\ qpc' = "done" /\ qout'.kind = "returned")
          => /\ qout'.value.resolved = response.resolved
             /\ qout'.value.ratings = response.ratings
             /\ NotesFollowResponse(qout'.value)
      ]_vars

\* C16 witness: a returned response carrying all four notes
C16_Witness ==
    /\ DoneViaSources
    /\ qout.kind = "returned"
    /\ Len(qout.value.notes) = 4
    /\ qout.value.notes[1].kind = "Scraping blocked for"
    /\ qout.value.notes[2].kind = "Found alternative matches"
    /\ qout.value.notes[3].kind = "No rating found for"
    /\ qout.value.notes[4].kind = "Low confidence match"



\* C17: with requests_per_domain = RequestsPerWindow (2) and the circuit closed,
\* of the first RequestsPerWindow + 1 (three) acquire calls on a domain made
\* within WindowSeconds of each other, all but the last are allowed and the
\* last is denied.
C17_ThirdInWindowDenied ==
    \A d \in AllDomains :
        \A n \in DOMAIN firstCalls[d].answers :
            firstCalls[d].answers[n] = (n <= RequestsPerWindow)

\* C17 witness: three acquires inside one window that began earlier, the third
\* one just denied for lack of tokens
C17_Witness ==
    \E d \in Domains :
        /\ Len(firstCalls[d].answers) = RequestsPerWindow + 1
        /\ firstCalls[d].start < now
        /\ rlLast.op = "acquire" /\ rlLast.domain = d /\ rlLast.pre = "closed"
        /\ ~rlLast.allowed /\ rlLast.reason.kind = "rate_limit"

\* the changes of state a circuit may make
CircuitMoves ==
    {<<"closed", "open">>, <<"open", "half_open">>,
     <<"half_open", "closed">>, <<"half_open", "open">>}

\* C18: every domain's circuit starts closed and, under any sequence of acquire,
\* record_success and record_failure calls and clock advances, changes state
\* only closed -> open, open -> half_open, half_open -> closed and
\* half_open -> open.
C18_OnlyCircuitMoves ==
    /\ \A d \in AllDomains : circuits[d].state = "closed"
    /\ [][\A d \in AllDomains :
             \/ circuits'[d].state = circuits[d].state
             \/ <<circuits[d].state, circuits'[d].state>> \in CircuitMoves
         ]_vars

\* C18 witness: a circuit opened by failures, half-opened by an acquire after
\* the cooldown, and just opened again by a failure
C18_Witness ==
    \E d \in Domains :
        /\ rlLast.op = "failure" /\ rlLast.domain = d /\ rlLast.pre = "half_open"
        /\ circuits[d].state = "open"
        /\ circuits[d].failure_count = CircuitThreshold + 1

\* C19: in every reachable state whose circuit is half-open, whatever its
\* failure_count and success_count, one record_failure opens it.
C19_HalfOpenFailureOpens ==
    \A d \in AllDomains :
        /\ circuits[d].state = "half_open"
              => CircuitRecordFailure(circuits[d], now).state = "open"
        /\ (rlLast.op = "failure" /\ rlLast.domain = d /\ rlLast.pre = "half_open")
              => circuits[d].state = "open"

\* C19 witness: a half-open circuit that had counted one success was just opened
\* by a single failure
C19_Witness ==
    \E d \in Domains :
        /\ rlLast.op = "failure" /\ rlLast.domain = d /\ rlLast.pre = "half_open"
        /\ circuits[d].state = "open"
        /\ circuits[d].success_count = 1

\* C20: a record_success on a closed circuit leaves it closed with failure_count
\* 0; a closed circuit's failure_count is the number of record_failure calls
\* since the last record_success and is below the threshold; and a closed
\* circuit opens only on the record_failure that completes a run of
\* CircuitThreshold failures with no success between them.
C20_OpensOnlyAfterFailureRun ==
    /\ [](\A d \in AllDomains :
             circuits[d].state = "closed"
                => /\ circuits[d].failure_count = failStreak[d]
                   /\ failStreak[d] < CircuitThreshold)
    /\ [][\A d \in AllDomains :
             /\ (rlLast'.op = "success" /\ rlLast'.domain = d
                    /\ circuits[d].state = "closed")
                   => (circuits'[d].state = "closed" /\ circuits'[d].failure_count = 0)
             /\ (circuits[d].state = "closed" /\ circuits'[d].state # "closed")
                   => /\ rlLast'.op = "failure" /\ rlLast'.domain = d
                      /\ circuits'[d].state = "open"
                      /\ failStreak[d] = CircuitThreshold - 1
                      /\ failStreak'[d] = CircuitThreshold
         ]_vars

\* C20 witness: a closed circuit that had counted a failure was just given a
\* success after an allowed acquire, and its failure_count is 0
C20_Witness ==
    \E d \in Domains :
        /\ rlLast.op = "success" /\ rlLast.domain = d /\ rlLast.pre = "closed"
        /\ circuits[d].state = "closed"
        /\ circuits[d].failure_count = 0
        /\ circuits[d].last_failure_time # Unset
        /\ allowedLog[d] # <<>>

\* the acquire just made on d found the window elapsed and refilled the bucket
Refilled(d) == lastRefill[d] # Unset /\ now - lastRefill[d] >= WindowSeconds

\* C21 (as stated): every allowed acquire leaves tokens one below what they were
\* before the call.
C21_AllowedTakesOneFromBefore ==
    [][\A d \in AllDomains :
          (rlLast'.op = "acquire" /\ rlLast'.domain = d /\ rlLast'.allowed)
             => tokens'[d] = tokens[d] - 1
      ]_vars

\* C21 (amended): 0 <= tokens <= requests_per_domain in every reachable state; an
\* allowed acquire leaves tokens one below the bucket after its refill (the full
\* bucket if the window had elapsed, the tokens before the call otherwise); a
\* denied acquire leaves tokens unchanged and never refills.
C21_TokensWithinBucket ==
    /\ [](\A d \in AllDomains : 0 <= tokens[d] /\ tokens[d] <= RequestsPerWindow)
    /\ [][\A d \in AllDomains :
             (rlLast'.op = "acquire" /\ rlLast'.domain = d)
                => IF rlLast'.allowed
                   THEN tokens'[d] = (IF Refilled(d) THEN RequestsPerWindow
                                      ELSE tokens[d]) - 1
                   ELSE tokens'[d] = tokens[d] /\ lastRefill'[d] = lastRefill[d]
         ]_vars

\* C21 witness: an acquire found the bucket empty and the window elapsed, refilled
\* it and was allowed
C21_Witness ==
    \E d \in Domains :
        /\ rlLast.op = "acquire" /\ rlLast.domain = d /\ rlLast.allowed
        /\ lastRefill[d] = now
        /\ now >= WindowSeconds
        /\ tokens[d] = RequestsPerWindow - 1
        /\ Len(allowedLog[d]) = RequestsPerWindow

\* the agencies whose resolver call has settled and been planned for: they have
\* an error entry in the response or a place in scraping_tasks
PlannedAgencies ==
    DictKeys(response.ratings) \cup {tasks[i] : i \in DOMAIN tasks}

\* a step in which the rate limiter is asked or told something, or a scrape's
\* page load begins or ends
LimiterOrFetchStep ==
    \/ tokens' # tokens \/ lastRefill' # lastRefill \/ circuits' # circuits
    \/ (rlLast'.op # "none" /\ rlLast' # rlLast)
    \/ \E d \in AllDomains :
          \/ traffic'[d].acquires # traffic[d].acquires
          \/ traffic'[d].successes # traffic[d].successes
          \/ traffic'[d].failures # traffic[d].failures

\* C22: within one call of get_ratings no acquire and no scrape begins before
\* the resolver call of every agency has settled: such a step happens only in
\* the scraping phase, when every agency is already planned for, and while
\* resolvers are still awaited the limiter has been asked nothing for this call.
C22_ResolveBeforeScrape ==
    /\ [][LimiterOrFetchStep
             => (qpc = "scraping" /\ PlannedAgencies = AgencySet /\ entities' = <<>>)
         ]_vars
    /\ [](qpc \in {"idle", "cache_get", "resolving"}
             => /\ rlLast.op # "acquire"
                /\ \A d \in AllDomains :
                      /\ traffic[d].acquires = 0
                      /\ traffic[d].successes + traffic[d].failures = 0)

\* C22 witness: the first acquire of a call, made after one resolver raised or
\* found nothing (its agency has an error entry) and another found an entity
C22_Witness ==
    /\ qpc = "scraping"
    /\ qidx = 1
    /\ awaited = Pending
    /\ rlLast.op = "acquire" /\ rlLast.allowed
    /\ Len(response.ratings) = 1
    /\ Len(tasks) = 2
    /\ PlannedAgencies = AgencySet

\* C23: within a phase the calls of the agencies run concurrently: while one
\* agency's resolver or scraper call is awaited and has not settled, get_ratings
\* can take a step that starts the call of an agency not yet started.
C23_OthersStartWhilePending ==
    (/\ awaited = Pending
     /\ \/ qpc = "resolving" /\ qidx < Len(Agencies)
        \/ qpc = "scraping" /\ qidx < Len(tasks))
        => ENABLED QueryProgram

----------------------------------------------------------------------------
(* Two calls of get_ratings: claims *)

\* the cache key of the two calls
PairKey == GenerateCacheKey(CallArgs[1].name, CallArgs[1].country)

\* the call looked the cache up before anything was written and went on to the
\* sources
MissedFirst(c) ==
    /\ pair[c].seen = 0
    /\ ~(pair[c].pc = "done" /\ pair[c].set = "none" /\ pair[c].out = Raised)

\* C24: two calls with one cache key are not deduplicated. A call that looks the
\* cache up before either has written misses and runs its resolvers and scrapes,
\* each allowed scrape taking a token of its own; each such call ends in
\* cache.set; the table never holds more than the one row of that key, and the
\* row is that of the last write.
C24_NoDeduplication ==
    /\ [](/\ GenerateCacheKey(CallArgs[2].name, CallArgs[2].country) = PairKey
          /\ DOMAIN rows \subseteq {PairKey}
          /\ PairKey \in DOMAIN rows
                => /\ writes # <<>>
                   /\ rows[PairKey].response_data
                         = ModelDumpJson(writes[Len(writes)].response)
          /\ \A c \in CallIds :
                /\ MissedFirst(c) => ~pair[c].hit
                /\ (MissedFirst(c) /\ pair[c].pc = "done")
                      => /\ pair[c].out.kind = "returned"
                         /\ ~pair[c].out.value.cached
                         /\ Len(pair[c].out.value.ratings) = Len(Agencies)
                         /\ pair[c].set \in {"stored", "failed"}
                         /\ pair[c].set = "stored"
                               => \E i \in DOMAIN writes :
                                     /\ writes[i].call = c
                                     /\ writes[i].response = pair[c].out.value
          /\ (\A c \in CallIds : MissedFirst(c) /\ pair[c].pc = "done")
                /\ Len(writes) = 2
                => /\ PairKey \in DOMAIN rows
                   /\ ModelLoadJson(rows[PairKey].response_data)
                         = pair[writes[2].call].out.value)
    /\ [][\A c \in CallIds :
             pair'[c].acquired # pair[c].acquired
                => LET d == AgencyDomain(pair[c].tasks[pair[c].idx])
                   IN  /\ pair'[c].acquired = pair[c].acquired + 1
                       /\ rlLast'.op = "acquire" /\ rlLast'.domain = d
                       /\ rlLast'.allowed
                       /\ tokens'[d] = (IF Refilled(d) THEN RequestsPerWindow
                                        ELSE tokens[d]) - 1
         ]_vars

\* C24 witness: both calls missed before either wrote, each scraped Fitch on a
\* token of its own, both wrote, and the row is the second write's response,
\* which differs from the first's
C24_Witness ==
    /\ \A c \in CallIds :
          /\ MissedFirst(c) /\ pair[c].pc = "done"
          /\ pair[c].acquired = 1
    /\ Len(writes) = 2
    /\ writes[1].response.ratings # writes[2].response.ratings
    /\ rows[PairKey].response_data = ModelDumpJson(writes[2].response)
    /\ rows[PairKey].response_data # ModelDumpJson(writes[1].response)
    /\ firstCalls["fitchratings.com"].answers = <<TRUE, TRUE>>

\* no entry of the ratings has a rating: every agency is unresolved, blocked or
\* failed
AllFailed(ratings) ==
    /\ Len(ratings) = Len(Agencies)
    /\ \A i \in DOMAIN ratings : ratings[i].value.raw = ""

\* C29: get_ratings ends every miss path in cache.set, whatever the agencies'
\* outcomes, and a set the store accepts leaves the response in the row of the
\* key; a later call with the same key whose lookup finds that row unexpired
\* (the store working) returns the stored response marked cached, with the same
\* ratings and notes, and resolves, acquires and scrapes nothing.
C29_FailuresAreCachedToo ==
    /\ [](\A c \in CallIds :
             /\ (pair[c].pc = "done" /\ ~pair[c].hit /\ pair[c].out # Raised)
                   => pair[c].set \in {"stored", "failed"}
             /\ pair[c].hit
                   => /\ pair[c].pc = "done"
                      /\ pair[c].acquired = 0
                      /\ pair[c].tasks = <<>>
                      /\ pair[c].response = NoResponse
                      /\ pair[c].set = "none"
                      /\ pair[c].out.kind = "returned"
                      /\ pair[c].out.value.cached
                      /\ pair[c].seen > 0
                      /\ pair[c].out.value
                            = MarkCached(writes[pair[c].seen].response))
    /\ [][\A c \in CallIds :
             /\ (pair[c].pc = "finishing" /\ pair'[c].set = "stored")
                   => /\ PairKey \in DOMAIN rows'
                      /\ ModelLoadJson(rows'[PairKey].response_data)
                            = [pair'[c].response EXCEPT !.cached = FALSE]
                      /\ rows'[PairKey].expires_at = now + CacheTtl
             /\ (/\ pair[c].pc = "idle" /\ pair'[c].pc # "idle"
                 /\ PairKey \in DOMAIN rows
                 /\ now <= rows[PairKey].expires_at
                 /\ ~cacheLast'.raised /\ ~cacheLast'.failed)
                   => /\ pair'[c].hit
                      /\ pair'[c].out.value.ratings
                            = writes[Len(writes)].response.ratings
                      /\ pair'[c].out.value.notes
                            = writes[Len(writes)].response.notes
                      /\ UNCHANGED <<tokens, lastRefill, circuits, rlLast, rows>>
         ]_vars

\* C29 witness: the first call found no rating for any agency (Fitch's scrape
\* failed, the others did not resolve) and cached that; the second call, made
\* later, was served those failures from the cache and asked the limiter nothing
C29_Witness ==
    \E c, e \in CallIds :
        /\ c # e
        /\ pair[e].pc = "done" /\ pair[e].set = "stored"
        /\ AllFailed(pair[e].out.value.ratings)
        /\ "Scraping failed" \in ErrorTexts(pair[e].out.value.ratings)
        /\ pair[c].hit
        /\ pair[c].out.value.ratings = pair[e].out.value.ratings
        /\ pair[c].out.value.timestamp < now
        /\ pair[c].acquired = 0
        /\ circuits["fitchratings.com"].state = "open"

----------------------------------------------------------------------------
(* Independence of the domains: claims *)

\* everything the rate limiter holds for domain d
LimiterStateOf(d) == <<tokens[d], lastRefill[d], circuits[d]>>

\* C25: a call of acquire, record_success or record_failure on a domain leaves
\* the tokens, the window start and the circuit (state, failure_count,
\* success_count, last_failure_time) of every other domain unchanged, and what
\* it answers and leaves for its own domain is determined by that domain's own
\* state and the clock.
C25_DomainsIndependent ==
    [][\A d \in AllDomains :
          (rlLast'.op # "none" /\ rlLast'.domain = d)
             => /\ \A b \in AllDomains \ {d} :
                      <<tokens'[b], lastRefill'[b], circuits'[b]>> = LimiterStateOf(b)
                /\ rlLast'.op = "acquire"
                      => LET r == AcquireResult(tokens[d], lastRefill[d],
                                                circuits[d], now, circuitTimeout)
                         IN  /\ rlLast'.allowed = r.allowed
                             /\ rlLast'.reason = r.reason
                             /\ <<tokens'[d], lastRefill'[d], circuits'[d]>>
                                   = <<r.tokens, r.last_refill, r.circuit>>
                /\ rlLast'.op = "success"
                      => <<tokens'[d], lastRefill'[d], circuits'[d]>>
                            = <<tokens[d], lastRefill[d],
                                CircuitRecordSuccess(circuits[d])>>
                /\ rlLast'.op = "failure"
                      => <<tokens'[d], lastRefill'[d], circuits'[d]>>
                            = <<tokens[d], lastRefill[d],
                                CircuitRecordFailure(circuits[d], now)>>
      ]_vars

\* C25 witness: an acquire on S&P's domain was just allowed and its circuit is
\* closed with its first token taken, while Fitch's domain, called before it,
\* has its circuit open after more failures than the threshold and no token left
C25_Witness ==
    /\ rlLast.op = "acquire" /\ rlLast.domain = "spglobal.com" /\ rlLast.allowed
    /\ tokens["spglobal.com"] = RequestsPerWindow - 1
    /\ circuits["spglobal.com"] = NewCircuit
    /\ circuits["fitchratings.com"].state = "open"
    /\ circuits["fitchratings.com"].failure_count > CircuitThreshold
    /\ tokens["fitchratings.com"] = 0

----------------------------------------------------------------------------
(* Cache sweep and key collisions: claims *)

\* the keys of the rows of a table that have expired at time t
ExpiredKeys(tbl, t) == {k \in DOMAIN tbl : tbl[k].expires_at < t}

\* C26: cleanup_expired never raises; it either removes exactly the rows whose
\* expires_at < now, leaving the others as they are, and returns their number,
\* or (the store failing) removes nothing and returns 0.
C26_CleanupRemovesExpired ==
    [][cacheLast'.op = "cleanup"
          => /\ ~cacheLast'.raised
             /\ \/ /\ rows' = [k \in DOMAIN rows \ ExpiredKeys(rows, now) |-> rows[k]]
                   /\ cacheLast'.deleted = Cardinality(ExpiredKeys(rows, now))
                \/ /\ rows' = rows
                   /\ cacheLast'.deleted = 0
      ]_vars

----------------------------------------------------------------------------
(* The breaker's state against its failure count: claims *)

\* C28: in every reachable state a circuit is closed exactly when its
\* failure_count is below the threshold; an open or half-open circuit has
\* failure_count >= threshold and a last_failure_time that is set.
C28_ClosedIffBelowThreshold ==
    \A d \in AllDomains :
        /\ circuits[d].state = "closed" <=> circuits[d].failure_count < CircuitThreshold
        /\ circuits[d].state \in {"open", "half_open"}
              => /\ circuits[d].failure_count >= CircuitThreshold
                 /\ circuits[d].last_failure_time # Unset

\* C28 witness: a half-open circuit has just counted its first success and still
\* holds the failure_count that opened it
C28_Witness ==
    \E d \in Domains :
        /\ rlLast.op = "success" /\ rlLast.domain = d /\ rlLast.pre = "half_open"
        /\ circuits[d].state = "half_open"
        /\ circuits[d].success_count = 1
        /\ circuits[d].failure_count >= CircuitThreshold
        /\ circuits[d].last_failure_time # Unset

----------------------------------------------------------------------------
(* Distinct queries and the key string: claims *)

\* a query as the key sees it: the trimmed lower-cased name and `country or ''`
NormalizedQuery(args) == <<Strip(Lower(args.name)), OrEmpty(args.country)>>

\* C30: two queries whose normalized forms differ are given different keys.
C30_DistinctQueriesDistinctKeys ==
    (/\ keyOut # NoKeys
     /\ NormalizedQuery(keyArgs[1]) # NormalizedQuery(keyArgs[2]))
    => keyOut[1] # keyOut[2]

----------------------------------------------------------------------------
(* Self-healing of the circuit and of the bucket: claims *)

\* the last call was an acquire on d that was allowed
JustAllowed(d) == rlLast.op = "acquire" /\ rlLast.domain = d /\ rlLast.allowed

\* the clock of the model can still advance by a whole window
WindowAhead == now + WindowSeconds <= MaxTime

\* C27: with the clock advancing, no record_failure after the first second, and
\* callers that go on acquiring and record a success for each allowed acquire,
\* an open circuit becomes half-open and a half-open one closed, the circuit
\* never closing straight from open; and a domain whose tokens are used up is
\* allowed an acquire again after the window (the clock still having a window
\* to run).
C27_CircuitAndBucketHeal ==
    /\ \A d \in Domains :
          /\ (circuits[d].state = "open") ~> (circuits[d].state = "half_open")
          /\ (circuits[d].state = "half_open") ~> (circuits[d].state = "closed")
          /\ (tokens[d] = 0 /\ WindowAhead) ~> JustAllowed(d)
    /\ [][\A d \in Domains :
             circuits[d].state = "open" => circuits'[d].state # "closed"]_vars

\* C27 witness: a circuit that was opened in the first second has gone half-open
\* after its cooldown and has just been closed by the second success
C27_Witness ==
    \E d \in Domains :
        /\ rlLast.op = "success" /\ rlLast.domain = d /\ rlLast.pre = "half_open"
        /\ circuits[d].state = "closed"
        /\ circuits[d].last_failure_time = 0
        /\ now > circuitTimeout

====
